---- MODULE Spec2Model ----
(***************************************************************************)
(* xQuant: the order manager, the exchange capability and the four         *)
(* execution algorithms (TWAP/VWAP splitters, Iceberg manager,             *)
(* Trailing-stop manager), modelled from src/src.                          *)
(*                                                                         *)
(* Quantities and prices are f64 in the source.  They are modelled as      *)
(* integers counting a smallest unit; a division that is inexact in f64    *)
(* is modelled as rounding down or up (both outcomes are explored).        *)
(*                                                                         *)
(* One specification per subsystem:                                        *)
(*   SpecOM     OrderManager.create_order over the in-memory repository    *)
(*   SpecSplit  one TwapSplitter / VwapSplitter instance                   *)
(*   SpecIce    one IcebergManager instance and its poll tasks             *)
(*   SpecTrail  one TrailingStopManager instance and its poll task         *)
(*   SpecAlgos  one instance of any of the four algorithms                 *)
(*   SpecOps    the order manager in service                               *)
(*   SpecStrat  one Strategy and its caller                                *)
(*   SpecBacktest  one BacktestEngine, its strategies and its run()        *)
(*   SpecManager   one StrategyManager and its caller                      *)
(*   SpecSignals   one MovingAverageCrossover and SignalType.from_strength *)
(*   SpecRuntime   one per-symbol task of start_strategy_runtime           *)
(***************************************************************************)
EXTENDS Integers, Sequences, FiniteSets, TLC

VARIABLES
    \* ---- exchange (Arc<RwLock<dyn Exchange>>) -------------------------
    exchKind,      \* "mock" (MockExchange) or "live" (BinanceFuturesExchange)
    exOrders,      \* orders the venue holds, by id 1..Len: [st, qty, typ, cxl]
    \* ---- order repository and OrderManager.create_order callers -------
    repoOrders,    \* InMemoryOrderRepository.orders: key -> order
    repoClientIdx, \* InMemoryOrderRepository.client_id_index: cid -> key
    validators,    \* OrderManager.validators, in add_validator order
    uuidCtr,       \* number of Uuid::new_v4() values drawn so far
    omPc,          \* per caller: position inside create_order
    omOrder,       \* per caller: the order passed to create_order
    omRes,         \* per caller: what create_order returned
    omAssigned,    \* per caller: the id the exchange assigned (0: none)
    \* ---- one TwapSplitter / VwapSplitter instance ----------------------
    spKind,        \* "twap" or "vwap"
    spTotal,       \* total_quantity
    spNumSlices,   \* num_slices (TWAP: constructor argument; VWAP: 10)
    spHist,        \* volumes of the bars get_historical_data returns (VWAP)
    spRound,       \* how this run's inexact f64 results round: "down" or "up"
    spActive,      \* is_active
    spExecuted,    \* executed_quantity
    spChildren,    \* child_orders
    spPc,          \* "idle": no call in progress; "loop": inside start()'s loop;
                   \* "panicked": start() panicked
    spI,           \* loop index i of start()
    spRemaining,   \* remaining_quantity of start()
    spPlan,        \* slice_quantity of each slice, as start() computes it
    spRuns,        \* number of runs started
    spRunDone,     \* the current run's start() returned Ok
    spLast,        \* what the last completed call returned
    spAttempts,    \* this run's create_child_order calls: [i, qty, ok]
    \* ---- one IcebergManager instance and the poll tasks it spawned -----
    iceTotal,      \* total_quantity
    iceDisplay,    \* display_quantity (clamped by new())
    iceLimit,      \* limit_price
    iceExecuted,   \* self.executed_quantity
    iceActive,     \* self.is_active
    iceCurrent,    \* self.current_order_id (None or an exchange id)
    iceExecLock,   \* execution_lock: 0 when free, else the task holding it
    icePc,         \* "idle": no call in progress; "upd_submit": update_price()
                   \* has cancelled and is about to call submit_visible_portion
    iceStarts,     \* number of start() calls that spawned a poll task
    iceUpdates,    \* number of update_price() calls made
    iceStopped,    \* stop() has returned Ok on the active instance, and no
                   \* start() has made it active since
    iceLast,       \* what the last completed call returned
    tPc,           \* per poll task: "none", "head", "tick", "lock", "body", "done"
    tActive,       \* per poll task: its own is_active cell (Arc<RwLock<bool>>)
    tExecuted,     \* per poll task: its own executed_quantity cell
    tCurrent,      \* per poll task: its own current_order_id cell
    iceHeadAfterStop, \* a poll task found its loop condition true after stop()
    iceFilledPolls,   \* polls completed while the instance's child was Filled
    \* ---- one TrailingStopManager instance and its monitoring tasks ------
    mktPrice,      \* close of the exchange's latest market data
    exReaders,     \* tasks holding a read guard of the exchange RwLock
    exWriteWait,   \* tasks waiting in exchange.write()
    trSide,        \* side
    trQty,         \* quantity
    trDelta,       \* self.trailing_delta (percent)
    trActivation,  \* activation_price: {} for None, {p} for Some(p)
    trExecuted,    \* self.executed
    trActive,      \* self.is_active
    trHighest,     \* self.highest_price
    trLowest,      \* self.lowest_price
    trStopOrder,   \* self.stop_order_id
    trStarts,      \* number of start() calls that spawned a task
    trLast,        \* what the last completed call returned
    kPc,           \* per task: "none", "head", "tick", "blocked", "done"
    kActive,       \* per task: its own is_active cell
    kHighest,      \* per task: its own highest_price cell
    kLowest,       \* per task: its own lowest_price cell
    kExecuted,     \* per task: its own executed cell
    kStopId,       \* per task: its own stop_order_id cell
    kActivated,    \* per task: local `activated`
    kDelta,        \* per task: trailing_delta captured at spawn
    trS4Polls,     \* n when the polls so far have read the first n closes of
                   \* S4Prices and nothing else; None once they have departed
    \* ---- OrderManager: cancel_order, status streams, monitoring task ----
    repoReaders,   \* tasks holding a read guard of the repository RwLock
    repoWriteWait, \* tasks waiting in repository.write()
    statusChannels,\* self.status_channels: client ids that have a channel
    chanSent,      \* statuses sent on the channels, in order: [cid, st]
    cxPc,          \* cancel_order in progress: "idle", "exch", "repo"
    cxId,          \* its order_id
    cxLast,        \* what the last completed cancel_order returned
    cxCount,       \* cancel_order calls made
    cancelledOk,   \* ids for which a cancel_order has returned Ok
    monPc,         \* monitoring task: "off", "tick", "loop", "blocked"
    monChannels,   \* its clone of status_channels, taken at spawn
    monQueue,      \* orders of this cycle's find_by_status still to poll
    monSeen,       \* <<order, status>> the task has read from the exchange
    \* ---- one Strategy and its caller -----------------------------------
    stStrategy,    \* the strategy
    stUpdates,     \* update() calls made
    stCalls,       \* get_orders() calls made since the last update()
    stHanded,      \* the orders those calls returned, in order
    stLastTs,      \* timestamp of the last bar given to update()
    stNow,         \* the last wall-clock reading
    \* ---- one BacktestEngine and its run() ------------------------------
    btProvider,    \* what data_provider.load_data() returns
    btStart,       \* start_time
    btEnd,         \* end_time
    btInitial,     \* initial_balance
    btFee,         \* fee_rate (percent)
    btSlip,        \* slippage (percent)
    btMarketData,  \* market_data
    btBalance,     \* current_balance
    btOrders,      \* orders: the pending ones, by id
    btTrades,      \* trades
    btStrategies,  \* strategies, in add_strategy order
    btCounter,     \* order_id_counter
    btTimeline,    \* run(): filtered_timeline
    btPos,         \* run(): the next entry of filtered_timeline
    btCurrentTime, \* run(): current_time
    btCurrentData, \* run(): current_data of the last entry ({}: none yet)
    btNow,         \* the last wall-clock reading
    btPc,          \* "new": run() not called; "loop": inside its loop; "done"
    btReturned,    \* what run() returned
    \* ---- one StrategyManager -------------------------------------------
    smStrategies,  \* strategies: name -> the strategy's is_active flag
    smActive,      \* active_strategies
    smRegistered,  \* history: the registered names in add_strategy order
    smUpdated,     \* history: the strategies the last update_all updated
    smLast,        \* the last call: [op, name, status, fails]
    smPhase,       \* history: how far add; remove; add has come, by name
    \* ---- one MovingAverageCrossover, and SignalType::from_strength ------
    maIndicator,   \* the indicator: its two averages, last_fast, last_slow
    maPrev,        \* history: the two averages before the last update()
    maResult,      \* what calculate() returned since the last update()
    sgStrength,    \* the strength from_strength was last given (hundredths)
    sgType,        \* the SignalType it returned
    \* ---- one per-symbol task of start_strategy_runtime ------------------
    rtPc,          \* "tick", "fetch", "update", "submit"
    rtTicks,       \* ticks begun
    rtQueue,       \* `orders` of this tick still to submit
    rtDrained,     \* history: the orders this tick took from the manager
    rtAttempted,   \* history: this tick's create_order calls: [order, ok]
    rtFailed       \* history: the kinds of failure met so far

exVars == <<exchKind, exOrders>>
omVars == <<repoOrders, repoClientIdx, validators, uuidCtr, omPc, omOrder, omRes, omAssigned>>
spVars == <<spKind, spTotal, spNumSlices, spHist, spRound, spActive, spExecuted, spChildren,
            spPc, spI, spRemaining, spPlan, spRuns, spRunDone, spLast, spAttempts>>
iceVars == <<iceTotal, iceDisplay, iceLimit, iceExecuted, iceActive, iceCurrent, iceExecLock,
             icePc, iceStarts, iceUpdates, iceStopped, iceLast, tPc, tActive, tExecuted,
             tCurrent, iceHeadAfterStop, iceFilledPolls>>
trVars == <<mktPrice, exReaders, exWriteWait, trSide, trQty, trDelta, trActivation,
            trExecuted, trActive, trHighest, trLowest, trStopOrder, trStarts, trLast,
            kPc, kActive, kHighest, kLowest, kExecuted, kStopId, kActivated, kDelta,
            trS4Polls>>
opsVars == <<repoReaders, repoWriteWait, statusChannels, chanSent, cxPc, cxId, cxLast,
             cxCount, cancelledOk, monPc, monChannels, monQueue, monSeen>>
stVars == <<stStrategy, stUpdates, stCalls, stHanded, stLastTs, stNow>>
btVars == <<btProvider, btStart, btEnd, btInitial, btFee, btSlip, btMarketData, btBalance,
            btOrders, btTrades, btStrategies, btCounter, btTimeline, btPos, btCurrentTime,
            btCurrentData, btNow, btPc, btReturned>>
smVars == <<smStrategies, smActive, smRegistered, smUpdated, smLast, smPhase>>
sigVars == <<maIndicator, maPrev, maResult, sgStrength, sgType>>
rtVars == <<rtPc, rtTicks, rtQueue, rtDrained, rtAttempted, rtFailed>>
libVars == <<smVars, sigVars, rtVars>>
vars == <<exVars, omVars, spVars, iceVars, trVars, opsVars, stVars, btVars, libVars>>
\* what the actions of one subsystem leave alone
NotOM == <<spVars, iceVars, trVars, opsVars, stVars, btVars, libVars>>
NotSp == <<omVars, iceVars, trVars, opsVars, stVars, btVars, libVars>>
NotIce == <<omVars, spVars, trVars, opsVars, stVars, btVars, libVars>>
NotTr == <<omVars, spVars, iceVars, opsVars, stVars, btVars, libVars>>
NotOps == <<spVars, iceVars, trVars, stVars, btVars, libVars>>

----------------------------------------------------------------------------
(* Bounds of the model *)

\* callers of create_order that may run concurrently (create_order(&self))
NumCallers ==
    2
\* client ids a caller may preset with with_client_order_id
NumPresetCids ==
    1

----------------------------------------------------------------------------
(* Values *)

\* OrderId("") set by Order::new; exchange-assigned ids are 1, 2, ...
NoId ==
    0
\* Option::None of an optional field
None ==
    -1

OpenStatuses == {"New", "PartiallyFilled"}
TerminalStatuses == {"Filled", "Cancelled", "Rejected", "Expired"}

Min(a, b) == IF a <= b THEN a ELSE b
Max(a, b) == IF a >= b THEN a ELSE b

----------------------------------------------------------------------------
(* Exchange: mocks.rs (MockExchange) and binance_futures.rs *)

\* MockExchange::generate_order_id: order_id_counter += 1
GenerateOrderId(orders) == Len(orders) + 1

\* status recorded by submit_order: the mock fills Market orders at once and
\* leaves every other order PartiallyFilled; on the live venue an accepted
\* order starts New.
SubmitStatus(kind, typ) ==
    IF kind = "mock"
        THEN (IF typ = "Market" THEN "Filled" ELSE "PartiallyFilled")
        ELSE "New"

\* Exchange::submit_order accepted: the order is stored under a fresh id
ExchSubmitted(orders, kind, typ, qty, owner) ==
    Append(orders, [st |-> SubmitStatus(kind, typ), qty |-> qty, typ |-> typ,
                    owner |-> owner, cxl |-> FALSE])

\* Exchange::cancel_order.  MockExchange sets the status of a known order to
\* Cancelled whatever it was; BinanceFuturesExchange::cancel_order is
\* "Not implemented": it returns Ok and leaves the order on the venue.
\* cxl records that a cancel was issued for the order.
ExchCancelled(orders, kind, id) ==
    IF id \in 1..Len(orders)
        THEN [orders EXCEPT ![id].st = IF kind = "mock" THEN "Cancelled" ELSE @,
                            ![id].cxl = TRUE]
        ELSE orders

\* Exchange::get_order_status as the caller sees it ("Err" for an unknown id
\* on the mock; the live connector answers New for every id)
ExchStatus(orders, kind, id) ==
    IF kind = "live" THEN "New"
    ELSE IF id \in 1..Len(orders) THEN orders[id].st
    ELSE "Err"

----------------------------------------------------------------------------
(* Order validators: validator.rs *)

\* BasicOrderValidator::new(min_order_size, max_order_size) as configured
MinOrderSize ==
    1
MaxOrderSize ==
    2
\* RiskOrderValidator::new(max_position_size, max_notional_value)
MaxPositionSize ==
    2
MaxNotionalValue ==
    3

\* BasicOrderValidator::validate
BasicValidate(o) ==
    IF o.qty <= 0 THEN "InvalidParameter"
    ELSE IF o.qty < MinOrderSize THEN "InvalidParameter"
    ELSE IF o.qty > MaxOrderSize THEN "InvalidParameter"
    ELSE IF o.price < 0 THEN "InvalidParameter"
    ELSE "Ok"

\* RiskOrderValidator::validate
RiskValidate(o) ==
    IF o.qty > MaxPositionSize THEN "RiskLimitExceeded"
    ELSE IF o.qty * o.price > MaxNotionalValue THEN "RiskLimitExceeded"
    ELSE "Ok"

RunValidator(v, o) == IF v = "basic" THEN BasicValidate(o) ELSE RiskValidate(o)

\* create_order's loop `for validator in &self.validators { validate(&order)? }`
RECURSIVE ValidateFrom(_, _, _)
ValidateFrom(vs, i, o) ==
    IF i > Len(vs) THEN "Ok"
    ELSE IF RunValidator(vs[i], o) # "Ok" THEN RunValidator(vs[i], o)
    ELSE ValidateFrom(vs, i + 1, o)

\* a chain that runs every validator and reports the last failure
ValidateAllLast(vs, o) ==
    LET bad == {i \in 1..Len(vs) : RunValidator(vs[i], o) # "Ok"} IN
    IF bad = {} THEN "Ok"
    ELSE RunValidator(vs[CHOOSE i \in bad : \A j \in bad : j <= i], o)

ValidateAll(vs, o) ==
    ValidateFrom(vs, 1, o)

----------------------------------------------------------------------------
(* Order repository: repository.rs *)

\* An Option<Order> is the set of its values: {} is Option::None
\* InMemoryOrderRepository::find_by_id
FindById(orders, id) ==
    IF id \in DOMAIN orders THEN {orders[id]} ELSE {}

\* InMemoryOrderRepository::find_by_client_id
FindByClientId(orders, idx, cid) ==
    IF cid \in DOMAIN idx
        THEN (IF idx[cid] \in DOMAIN orders THEN {orders[idx[cid]]} ELSE {})
        ELSE {}

\* InMemoryOrderRepository::find_by_status: the filter tests the argument,
\* `statuses.contains(&OrderStatus::New)`, not the order: every stored order
\* is returned when New is asked for, none otherwise (Order has no status
\* field)
FindByStatus(orders, statuses) ==
    IF "New" \in statuses THEN DOMAIN orders ELSE {}

\* the repository's tokio RwLock: a read guard is granted while no writer
\* waits; a write guard once every read guard has been dropped
RepoCanRead == repoWriteWait = {}
RepoCanWrite(readers) == readers = {} /\ repoWriteWait = {}

\* HashMap::insert
MapPut(m, k, v) == [x \in (DOMAIN m) \cup {k} |-> IF x = k THEN v ELSE m[x]]

\* HashMap::remove
MapDel(m, k) == [x \in (DOMAIN m) \ {k} |-> m[x]]

\* InMemoryOrderRepository::save: index the client id, then store by order.id
RepoSaveOrders(orders, o) == MapPut(orders, o.id, o)
RepoSaveIdx(idx, o) == IF o.cid # None THEN MapPut(idx, o.cid, o.id) ELSE idx

\* InMemoryOrderRepository::update fails with OrderNotFound unless the key
\* order.id is already stored
RepoUpdateOk(orders, o) == o.id \in DOMAIN orders

\* InMemoryOrderRepository::delete
RepoDeleteOrders(orders, id) == MapDel(orders, id)
RepoDeleteIdx(orders, idx, id) ==
    IF id \in DOMAIN orders /\ orders[id].cid # None
        THEN MapDel(idx, orders[id].cid)
        ELSE idx

----------------------------------------------------------------------------
(* OrderManager::create_order: manager.rs *)

Callers == 1..NumCallers

\* <<quantity, price>> of the orders a caller may pass: one no validator
\* accepts, one every validator accepts, one only the risk validator
\* refuses (notional), one both refuse with different errors
OrderShapes == {<<0, 1>>, <<1, 1>>, <<2, 2>>, <<3, 1>>}

\* the id field of the orders a caller may pass: "" as Order::new leaves it,
\* or the first id the exchange hands out (`pub id`, e.g. an Order taken
\* from an earlier answer of the exchange)
InputIds == {NoId, 1}

\* the orders a caller may pass, with or without with_client_order_id
InputOrders ==
    {[id |-> i, cid |-> c, qty |-> sh[1], price |-> sh[2]] :
        i \in InputIds, c \in {None} \cup (1..NumPresetCids), sh \in OrderShapes}

\* Uuid::new_v4(): a value no earlier call and no preset client id equals
FreshUuid(n) == NumPresetCids + n + 1

\* validators run first; a failure returns the validator's error before any
\* write.  Then the client id is set when absent.
OMValidate(c) ==
    /\ omPc[c] = "idle"
    /\ \E o \in InputOrders :
        LET r == ValidateAll(validators, o) IN
        IF r # "Ok"
            THEN /\ omPc' = [omPc EXCEPT ![c] = "done"]
                 /\ omRes' = [omRes EXCEPT ![c] = r]
                 /\ omOrder' = [omOrder EXCEPT ![c] = o]
                 /\ UNCHANGED uuidCtr
            ELSE /\ omPc' = [omPc EXCEPT ![c] = "save"]
                 /\ omOrder' = [omOrder EXCEPT ![c] =
                        IF o.cid = None THEN [o EXCEPT !.cid = FreshUuid(uuidCtr)] ELSE o]
                 /\ uuidCtr' = IF o.cid = None THEN uuidCtr + 1 ELSE uuidCtr
                 /\ UNCHANGED omRes
    /\ UNCHANGED <<repoOrders, repoClientIdx, validators, omAssigned>>
    /\ UNCHANGED <<exVars, NotOM>>

\* `repo.save(&order).await?` under the repository write lock
OMSave(c) ==
    /\ omPc[c] = "save"
    /\ RepoCanWrite(repoReaders)
    /\ repoOrders' = RepoSaveOrders(repoOrders, omOrder[c])
    /\ repoClientIdx' = RepoSaveIdx(repoClientIdx, omOrder[c])
    /\ omPc' = [omPc EXCEPT ![c] = "submit"]
    /\ UNCHANGED <<validators, uuidCtr, omOrder, omRes, omAssigned>>
    /\ UNCHANGED <<exVars, NotOM>>

\* `exchange.submit_order(order.clone()).await?` under the exchange write
\* lock: on Err the `?` returns at once; on Ok the assigned id is kept
OMSubmit(c) ==
    /\ omPc[c] = "submit"
    /\ \E ok \in BOOLEAN :
        IF ok
            THEN /\ exOrders' = ExchSubmitted(exOrders, exchKind, "Limit", omOrder[c].qty, c)
                 /\ omAssigned' = [omAssigned EXCEPT ![c] = GenerateOrderId(exOrders)]
                 /\ omPc' = [omPc EXCEPT ![c] = "update"]
                 /\ UNCHANGED omRes
            ELSE /\ omPc' = [omPc EXCEPT ![c] = "done"]
                 /\ omRes' = [omRes EXCEPT ![c] = "ExchangeError"]
                 /\ UNCHANGED <<exOrders, omAssigned>>
    /\ UNCHANGED <<repoOrders, repoClientIdx, validators, uuidCtr, omOrder, exchKind, NotOM>>

\* `updated_order.id = order_id; repo.update(&updated_order).await?`
OMUpdate(c) ==
    /\ omPc[c] = "update"
    /\ RepoCanWrite(repoReaders)
    /\ LET updated == [omOrder[c] EXCEPT !.id = omAssigned[c]] IN
        IF RepoUpdateOk(repoOrders, updated)
            THEN /\ repoOrders' = MapPut(repoOrders, updated.id, updated)
                 /\ repoClientIdx' = RepoSaveIdx(repoClientIdx, updated)
                 /\ omRes' = [omRes EXCEPT ![c] = "Ok"]
            ELSE /\ omRes' = [omRes EXCEPT ![c] = "OrderNotFound"]
                 /\ UNCHANGED <<repoOrders, repoClientIdx>>
    /\ omPc' = [omPc EXCEPT ![c] = "done"]
    /\ UNCHANGED <<validators, uuidCtr, omOrder, omAssigned>>
    /\ UNCHANGED <<exVars, NotOM>>

----------------------------------------------------------------------------
(* OrderManager: cancel_order, get_open_orders, status streams and the
   monitoring task: manager.rs *)

\* cancel_order calls that may be made
MaxCancels ==
    2

\* Exchange::get_open_orders without the status filter
GetOpenOrdersAll(orders, kind) ==
    IF kind = "mock" THEN 1..Len(orders) ELSE {}

\* OrderManager::get_open_orders hands back Exchange::get_open_orders:
\* MockExchange keeps the orders whose status is New or PartiallyFilled;
\* BinanceFuturesExchange and DryRunExchange answer with an empty list
GetOpenOrders(orders, kind) ==
    IF kind = "mock"
      THEN {id \in 1..Len(orders) : orders[id].st = "New" \/ orders[id].st = "PartiallyFilled"}
      ELSE {}

\* Exchange::cancel_order returns Ok: always on the live connector, for a
\* known id on the mock
ExchCancelOk(orders, kind, id) ==
    kind = "live" \/ id \in 1..Len(orders)

\* `if let Some(sender) = channels.get(client_id) { let _ = sender.send(st) }`
Published(sent, channels, cid, st) ==
    IF cid # None /\ cid \in channels THEN Append(sent, [cid |-> cid, st |-> st]) ELSE sent

\* cancel_order, first block: OrderNotFound unless the repository holds the id
CxCheck ==
    /\ cxPc = "idle"
    /\ cxCount < MaxCancels
    /\ RepoCanRead
    /\ cxCount' = cxCount + 1
    /\ \E id \in InputIds :
        /\ cxId' = id
        /\ IF FindById(repoOrders, id) = {}
             THEN /\ cxLast' = "OrderNotFound"
                  /\ UNCHANGED cxPc
             ELSE /\ cxLast' = "pending"
                  /\ cxPc' = "exch"
    /\ UNCHANGED <<repoReaders, repoWriteWait, statusChannels, chanSent, cancelledOk,
                   monPc, monChannels, monQueue, monSeen>>
    /\ UNCHANGED <<exVars, omVars, NotOps>>

\* cancel_order, second block: `exchange.cancel_order(order_id).await?`
CxExchange ==
    /\ cxPc = "exch"
    /\ IF ExchCancelOk(exOrders, exchKind, cxId)
         THEN /\ exOrders' = ExchCancelled(exOrders, exchKind, cxId)
              /\ cxPc' = "repo"
              /\ UNCHANGED cxLast
         ELSE /\ cxLast' = "OrderNotFound"
              /\ cxPc' = "idle"
              /\ UNCHANGED exOrders
    /\ UNCHANGED <<repoReaders, repoWriteWait, statusChannels, chanSent, cxId, cxCount,
                   cancelledOk, monPc, monChannels, monQueue, monSeen>>
    /\ UNCHANGED <<exchKind, omVars, NotOps>>

\* cancel_order, third block, under the repository write lock: Cancelled is
\* sent on the order's channel and the order is written back as it was read
\* (the local `status` is not stored: Order has no status field)
CxRepo ==
    /\ cxPc = "repo"
    /\ RepoCanWrite(repoReaders)
    /\ LET found == FindById(repoOrders, cxId) IN
       IF found = {}
         THEN UNCHANGED <<chanSent, repoOrders, repoClientIdx>>
         ELSE \E o \in found :
              /\ chanSent' = Published(chanSent, statusChannels, o.cid, "Cancelled")
              /\ repoOrders' = MapPut(repoOrders, cxId, [o EXCEPT !.id = cxId])
              /\ repoClientIdx' = RepoSaveIdx(repoClientIdx, [o EXCEPT !.id = cxId])
    /\ cxLast' = "Ok"
    /\ cancelledOk' = cancelledOk \cup {cxId}
    /\ cxPc' = "idle"
    /\ UNCHANGED <<repoReaders, repoWriteWait, statusChannels, cxId, cxCount,
                   monPc, monChannels, monQueue, monSeen>>
    /\ UNCHANGED <<validators, uuidCtr, omPc, omOrder, omRes, omAssigned>>
    /\ UNCHANGED <<exVars, NotOps>>

\* subscribe_to_status_updates(&mut self, client_order_id): the channel is
\* created when absent; &mut self keeps every &self call out
OpsSubscribe ==
    /\ cxPc = "idle"
    /\ \A c \in Callers : omPc[c] \in {"idle", "done"}
    /\ \E cid \in 1..(NumPresetCids + 1) :
        /\ cid \notin statusChannels
        /\ statusChannels' = statusChannels \cup {cid}
    /\ UNCHANGED <<repoReaders, repoWriteWait, chanSent, cxPc, cxId, cxLast, cxCount,
                   cancelledOk, monPc, monChannels, monQueue, monSeen>>
    /\ UNCHANGED <<exVars, omVars, NotOps>>

\* start_order_monitoring: the task is spawned with clones of the exchange,
\* the repository and the status_channels map as it is now
MonStart ==
    /\ monPc = "off"
    /\ monPc' = "tick"
    /\ monChannels' = statusChannels
    /\ UNCHANGED <<repoReaders, repoWriteWait, statusChannels, chanSent, cxPc, cxId, cxLast,
                   cxCount, cancelledOk, monQueue, monSeen>>
    /\ UNCHANGED <<exVars, omVars, NotOps>>

\* monitoring task, head of a cycle: tick; `let repo = repository.read()`, a
\* guard that lives to the end of the cycle; find_by_status([New,
\* PartiallyFilled])
MonBegin ==
    /\ monPc = "tick"
    /\ RepoCanRead
    /\ repoReaders' = repoReaders \cup {"mon"}
    /\ monQueue' = FindByStatus(repoOrders, {"New", "PartiallyFilled"})
    /\ monPc' = "loop"
    /\ UNCHANGED <<repoWriteWait, statusChannels, chanSent, cxPc, cxId, cxLast, cxCount,
                   cancelledOk, monChannels, monSeen>>
    /\ UNCHANGED <<exVars, omVars, NotOps>>

\* monitoring task, one order of the cycle: get_order_status; on Err the
\* next order; on Ok the task asks for `repository.write()` with its own
\* read guard alive: when the write guard can be granted the status is sent
\* on the order's channel (the repository is not written), else the task
\* waits in write()
MonPoll ==
    /\ monPc = "loop"
    /\ \E k \in monQueue :
        LET st == ExchStatus(exOrders, exchKind, k) IN
        IF st = "Err"
          THEN /\ monQueue' = monQueue \ {k}
               /\ UNCHANGED <<monSeen, chanSent, repoWriteWait, monPc>>
          ELSE /\ monSeen' = monSeen \cup {<<k, st>>}
               /\ IF RepoCanWrite(repoReaders)
                    THEN /\ chanSent' = Published(chanSent, monChannels,
                                                  repoOrders[k].cid, st)
                         /\ monQueue' = monQueue \ {k}
                         /\ UNCHANGED <<repoWriteWait, monPc>>
                    ELSE /\ repoWriteWait' = repoWriteWait \cup {"mon"}
                         /\ monPc' = "blocked"
                         /\ UNCHANGED <<chanSent, monQueue>>
    /\ UNCHANGED <<repoReaders, statusChannels, cxPc, cxId, cxLast, cxCount, cancelledOk,
                   monChannels>>
    /\ UNCHANGED <<exVars, omVars, NotOps>>

\* monitoring task, end of a cycle: the read guard is dropped
MonEnd ==
    /\ monPc = "loop"
    /\ monQueue = {}
    /\ repoReaders' = repoReaders \ {"mon"}
    /\ monPc' = "tick"
    /\ UNCHANGED <<repoWriteWait, statusChannels, chanSent, cxPc, cxId, cxLast, cxCount,
                   cancelledOk, monChannels, monQueue, monSeen>>
    /\ UNCHANGED <<exVars, omVars, NotOps>>

----------------------------------------------------------------------------
(* TwapSplitter and VwapSplitter: twap_splitter.rs, vwap_splitter.rs *)

\* largest TWAP num_slices the constructor is given
MaxSlices ==
    2
\* child submissions that may fail in one run
MaxFailures ==
    1
\* total_quantity the constructor is given: a multiple of every slice count
\* and of every total volume of HistSeries, and its successor
Totals == {30, 31}
\* runs one instance may go through (start() again after a run ended)
MaxRuns ==
    1
\* `let num_slices = 10` of VwapSplitter::start, and the 10 buckets of
\* calculate_volume_profile
VwapSlices ==
    10

\* an f64 quotient num/den of non-negative numbers: exact when it is
\* representable, else the neighbour below or above; a positive quotient
\* never rounds to zero
DivRound(num, den, mode) ==
    IF num % den = 0 THEN num \div den
    ELSE IF mode = "down" THEN Max(num \div den, 1)
    ELSE (num \div den) + 1

RECURSIVE SumSeq(_)
SumSeq(q) == IF q = <<>> THEN 0 ELSE Head(q) + SumSeq(Tail(q))

\* bar volumes of the reference series the exchange may return: none, fewer
\* bars than buckets, exactly VwapSlices bars, and a length VwapSlices does
\* not divide; flat, all-zero and rising volumes
HistSeries ==
    { [k \in 1..len |-> IF pat = "flat" THEN 1 ELSE IF pat = "zero" THEN 0 ELSE (k + 1) \div 2] :
        len \in {0, 4, VwapSlices, VwapSlices + 5}, pat \in {"flat", "zero", "rising"} }

\* sum of data[lo+1 .. hi]
RECURSIVE RangeSum(_, _, _)
RangeSum(data, lo, hi) ==
    IF lo >= hi THEN 0 ELSE data[lo + 1] + RangeSum(data, lo + 1, hi)

\* calculate_volume_profile, `period_volume` of bucket i (0-based):
\* `period_duration = data.len() / 10` in usize, and the bars
\* `data[i * period_duration .. ((i + 1) * period_duration).min(data.len())]`
PeriodVolume(data, i) ==
    LET pd == Len(data) \div VwapSlices
    IN  RangeSum(data, i * pd, Min((i + 1) * pd, Len(data)))

\* calculate_volume_profile: the 10 weights as numerators over one
\* denominator; uniform 1/10 for an empty series or a zero total volume
VolumeProfile(data) ==
    IF Len(data) = 0 \/ SumSeq(data) = 0
        THEN [num |-> [i \in 1..VwapSlices |-> 1], den |-> VwapSlices]
        ELSE [num |-> [i \in 1..VwapSlices |-> PeriodVolume(data, i - 1)],
              den |-> SumSeq(data)]

\* VwapSplitter::calculate_volume_profile followed by `total_quantity *
\* volume_ratio`: the slice_quantity of bucket i (0-based).  An empty series
\* or a zero total volume gives the uniform profile 1/10.
VwapSliceQuantity(data, total, i, mode) ==
    IF Len(data) = 0 \/ SumSeq(data) = 0
        THEN DivRound(total, VwapSlices, mode)
        ELSE LET pv == PeriodVolume(data, i)
             IN  IF pv = 0 THEN 0 ELSE DivRound(total * pv, SumSeq(data), mode)

\* TwapSplitter::start: `slice_quantity = total_quantity / num_slices as f64`
TwapSliceQuantity(total, n, mode) == DivRound(total, n, mode)

\* slice_quantity per loop index (1-based position i+1)
SlicePlan(kind, total, n, data, mode) ==
    IF kind = "twap"
        THEN [k \in 1..n |-> TwapSliceQuantity(total, n, mode)]
        ELSE [k \in 1..n |-> VwapSliceQuantity(data, total, k - 1, mode)]

\* the slice rule without its last-slice case: every slice is
\* slice.min(remaining)
AdjustedQuantityNoLast(i, n, slice, remaining) ==
    Min(slice, remaining)

\* `if i == num_slices - 1 { remaining } else { slice.min(remaining) }`
AdjustedQuantity(i, n, slice, remaining) ==
    IF i = n - 1 THEN remaining ELSE Min(slice, remaining)

\* the exchange ids in child_orders whose order is open, in list order
OpenChildren(children, orders, kind) ==
    SelectSeq(children, LAMBDA id : ExchStatus(orders, kind, id) \in OpenStatuses)

\* stop()'s loop: cancel_order for each child whose status is New or
\* PartiallyFilled
RECURSIVE CancelAll(_, _, _)
CancelAll(orders, kind, ids) ==
    IF ids = <<>> THEN orders
    ELSE CancelAll(ExchCancelled(orders, kind, Head(ids)), kind, Tail(ids))

\* number of failed create_child_order calls of the run so far
FailCount(attempts) == Cardinality({k \in 1..Len(attempts) : ~attempts[k].ok})

\* a stop() that never returns early
StopSkippedNever(active) ==
    FALSE

\* the first statement of every stop():
\* `if !self.is_active { return Ok(()) }`
StopSkipped(active) ==
    ~active

\* a start() that never refuses
StartRefusedNever(active) ==
    FALSE

\* the first statement of every start():
\* `if self.is_active { return Err(TradingError::AlreadyRunning(..)) }`
StartRefused(active) ==
    active

\* start(): AlreadyRunning on an active instance; else the run is set up.
\* TWAP: `execution_interval / num_slices as i64` panics for num_slices = 0.
\* VWAP: `get_historical_vwap_data().await?` returns the error with
\* is_active still true.
SpStart ==
    /\ spPc = "idle"
    /\ IF StartRefused(spActive)
        THEN /\ spLast' = "AlreadyRunning"
             /\ UNCHANGED <<spActive, spExecuted, spChildren, spPc, spI, spRemaining, spPlan,
                            spRuns, spRunDone, spAttempts, spHist, spRound>>
        ELSE /\ spRuns < MaxRuns
             /\ spRuns' = spRuns + 1
             /\ spActive' = TRUE
             /\ spExecuted' = 0
             /\ spChildren' = <<>>
             /\ spAttempts' = <<>>
             /\ spRunDone' = FALSE
             /\ IF spKind = "twap" /\ spNumSlices = 0
                  THEN /\ spPc' = "panicked"
                       /\ spLast' = "panic"
                       /\ UNCHANGED <<spI, spRemaining, spPlan, spHist, spRound>>
                  ELSE \E histOk \in BOOLEAN, data \in HistSeries, mode \in {"down", "up"} :
                       IF spKind = "vwap" /\ ~histOk
                         THEN /\ spLast' = "DataNotFound"
                              /\ UNCHANGED <<spPc, spI, spRemaining, spPlan, spHist, spRound>>
                         ELSE /\ spHist' = IF spKind = "vwap" THEN data ELSE <<>>
                              /\ spRound' = mode
                              /\ spPlan' = SlicePlan(spKind, spTotal, spNumSlices,
                                                     spHist', mode)
                              /\ spRemaining' = spTotal
                              /\ spI' = 0
                              /\ spPc' = "loop"
                              /\ UNCHANGED spLast
    /\ UNCHANGED <<spKind, spTotal, spNumSlices>>
    /\ UNCHANGED <<exVars, NotSp>>

\* one iteration of start()'s loop, after interval_timer.tick(): the slice's
\* quantity, create_child_order (get_market_data and submit_order under the
\* exchange write lock; either may fail, the error is logged), the
\* book-keeping, the `remaining_quantity <= 0.0` break; after the last
\* iteration is_active is cleared and start() returns Ok.
SpSlice ==
    /\ spPc = "loop"
    /\ spI < spNumSlices
    /\ spActive
    /\ LET q == AdjustedQuantity(spI, spNumSlices, spPlan[spI + 1], spRemaining) IN
       \E ok \in BOOLEAN :
         /\ (q <= 0 => ok)
         /\ (~ok => FailCount(spAttempts) < MaxFailures)
         /\ IF q > 0 /\ ok
              THEN /\ exOrders' = ExchSubmitted(exOrders, exchKind, "Market", q, "split")
                   /\ spChildren' = Append(spChildren, GenerateOrderId(exOrders))
                   /\ spRemaining' = spRemaining - q
                   /\ spExecuted' = spExecuted + q
              ELSE UNCHANGED <<exOrders, spChildren, spRemaining, spExecuted>>
         /\ spAttempts' = IF q > 0 THEN Append(spAttempts, [i |-> spI, qty |-> q, ok |-> ok])
                                   ELSE spAttempts
         /\ IF spRemaining' <= 0 \/ spI + 1 >= spNumSlices
              THEN /\ spActive' = FALSE
                   /\ spPc' = "idle"
                   /\ spRunDone' = TRUE
                   /\ spLast' = "Ok"
                   /\ UNCHANGED spI
              ELSE /\ spI' = spI + 1
                   /\ UNCHANGED <<spActive, spPc, spRunDone, spLast>>
    /\ UNCHANGED <<spKind, spTotal, spNumSlices, spHist, spRound, spPlan, spRuns>>
    /\ UNCHANGED <<exchKind, NotSp>>

\* stop(): Ok at once on an inactive instance; else is_active is cleared and
\* every child whose status is New or PartiallyFilled is cancelled
\* (`get_order_status(order_id).await?` returns the error of an unknown id).
\* start() and stop() take &mut self: stop() runs only between calls.
SpStop ==
    /\ spPc = "idle"
    /\ IF StopSkipped(spActive)
        THEN /\ spLast' = "StopOk"
             /\ UNCHANGED <<spActive, exOrders>>
        ELSE /\ spActive' = FALSE
             /\ exOrders' = CancelAll(exOrders, exchKind,
                                      OpenChildren(spChildren, exOrders, exchKind))
             /\ spLast' = IF \E k \in 1..Len(spChildren) :
                                ExchStatus(exOrders, exchKind, spChildren[k]) = "Err"
                            THEN "OrderNotFound" ELSE "StopOk"
    /\ UNCHANGED <<spKind, spTotal, spNumSlices, spHist, spRound, spExecuted, spChildren,
                   spPc, spI, spRemaining, spPlan, spRuns, spRunDone, spAttempts>>
    /\ UNCHANGED <<exchKind, NotSp>>

----------------------------------------------------------------------------
(* IcebergManager: iceberg_manager.rs *)

\* the total_quantity and display_quantity the constructor is given: totals
\* that are and are not multiples of the display, a display above the
\* total for new() to clamp, and an empty order
IceTotals == {0, 1, 3, 5}
IceDisplays == {1, 2, 6}
\* start() calls that may succeed on one instance, and update_price() calls
MaxIceStarts ==
    1
MaxPriceUpdates ==
    1
\* limit prices update_price() may be given
NumPrices ==
    1

Tasks == 1..MaxIceStarts

\* the instance's child orders on the venue
IceChildren == {id \in 1..Len(exOrders) : exOrders[id].owner = "ice"}

\* IcebergManager::new: `display_quantity.min(total_quantity)`
ClampDisplay(display, total) == Min(display, total)

\* `display_quantity.min(remaining)` of submit_visible_portion and of the
\* poll task
NextQuantity(display, remaining) == Min(display, remaining)

\* start(): AlreadyRunning on an active instance; else the fields are reset
\* and the first visible portion is submitted (`?`: on Err start() returns
\* with is_active still true and no task); then the poll task is spawned
\* with fresh cells is_active = true, executed_quantity = 0.0,
\* current_order_id = None.
IceStart ==
    /\ icePc = "idle"
    /\ IF StartRefused(iceActive)
        THEN /\ iceLast' = "AlreadyRunning"
             /\ UNCHANGED <<iceExecuted, iceActive, iceCurrent, iceStarts, iceStopped,
                            tPc, tActive, tExecuted, tCurrent, exOrders>>
        ELSE /\ iceStarts < MaxIceStarts
             /\ iceExecuted' = 0
             /\ LET remaining == iceTotal - 0 IN
                IF remaining <= 0
                  THEN /\ iceActive' = FALSE
                       /\ iceCurrent' = None
                       /\ UNCHANGED exOrders
                       /\ iceStarts' = iceStarts + 1
                       /\ iceStopped' = FALSE
                       /\ iceLast' = "Ok"
                       /\ tPc' = [tPc EXCEPT ![iceStarts + 1] = "head"]
                  ELSE \E ok \in BOOLEAN :
                       IF ok
                         THEN /\ exOrders' = ExchSubmitted(exOrders, exchKind, "Limit",
                                                NextQuantity(iceDisplay, remaining), "ice")
                              /\ iceCurrent' = GenerateOrderId(exOrders)
                              /\ iceActive' = TRUE
                              /\ iceStarts' = iceStarts + 1
                              /\ iceStopped' = FALSE
                              /\ iceLast' = "Ok"
                              /\ tPc' = [tPc EXCEPT ![iceStarts + 1] = "head"]
                         ELSE /\ iceActive' = TRUE
                              /\ iceCurrent' = None
                              /\ iceStopped' = FALSE
                              /\ iceLast' = "ExchangeError"
                              /\ UNCHANGED <<exOrders, iceStarts, tPc>>
             /\ UNCHANGED <<tActive, tExecuted, tCurrent>>
    /\ UNCHANGED <<iceTotal, iceDisplay, iceLimit, iceExecLock, icePc, iceUpdates,
                   iceHeadAfterStop, iceFilledPolls>>
    /\ UNCHANGED <<exchKind, NotIce>>

\* update_price(), first half: limit_price is set; on an active instance the
\* current child, if any, is cancelled (`let _ =`: the outcome is ignored)
\* and the exchange write lock is released before submit_visible_portion.
IceUpdatePrice ==
    /\ icePc = "idle"
    /\ iceUpdates < MaxPriceUpdates
    /\ iceUpdates' = iceUpdates + 1
    /\ \E p \in 1..NumPrices : iceLimit' = p
    /\ IF iceActive
        THEN /\ exOrders' = IF iceCurrent # None
                              THEN ExchCancelled(exOrders, exchKind, iceCurrent)
                              ELSE exOrders
             /\ icePc' = "upd_submit"
             /\ UNCHANGED iceLast
        ELSE /\ iceLast' = "Ok"
             /\ UNCHANGED <<exOrders, icePc>>
    /\ UNCHANGED <<iceTotal, iceDisplay, iceExecuted, iceActive, iceCurrent, iceExecLock,
                   iceStarts, iceStopped, tPc, tActive, tExecuted, tCurrent,
                   iceHeadAfterStop, iceFilledPolls>>
    /\ UNCHANGED <<exchKind, NotIce>>

\* update_price(), second half: submit_visible_portion().  With nothing
\* remaining is_active is cleared; else the next portion is submitted and
\* becomes current_order_id (`?`: on Err the old id stays).
IceSubmitVisible ==
    /\ icePc = "upd_submit"
    /\ icePc' = "idle"
    /\ LET remaining == iceTotal - iceExecuted IN
       IF remaining <= 0
         THEN /\ iceActive' = FALSE
              /\ iceLast' = "Ok"
              /\ UNCHANGED <<exOrders, iceCurrent>>
         ELSE \E ok \in BOOLEAN :
              IF ok
                THEN /\ exOrders' = ExchSubmitted(exOrders, exchKind, "Limit",
                                       NextQuantity(iceDisplay, remaining), "ice")
                     /\ iceCurrent' = GenerateOrderId(exOrders)
                     /\ iceLast' = "Ok"
                     /\ UNCHANGED iceActive
                ELSE /\ iceLast' = "ExchangeError"
                     /\ UNCHANGED <<exOrders, iceCurrent, iceActive>>
    /\ UNCHANGED <<iceTotal, iceDisplay, iceLimit, iceExecuted, iceExecLock, iceStarts,
                   iceUpdates, iceStopped, tPc, tActive, tExecuted, tCurrent,
                   iceHeadAfterStop, iceFilledPolls>>
    /\ UNCHANGED <<exchKind, NotIce>>

\* stop(): Ok at once on an inactive instance; else self.is_active is
\* cleared and the current child, if any, is cancelled (outcome ignored).
\* Nothing is written to the cells the poll task reads.
IceStop ==
    /\ icePc = "idle"
    /\ IF StopSkipped(iceActive)
        THEN UNCHANGED <<iceActive, iceStopped, exOrders>>
        ELSE /\ iceActive' = FALSE
             /\ iceStopped' = TRUE
             /\ exOrders' = IF iceCurrent # None
                              THEN ExchCancelled(exOrders, exchKind, iceCurrent)
                              ELSE exOrders
    /\ iceLast' = "StopOk"
    /\ UNCHANGED <<iceTotal, iceDisplay, iceLimit, iceExecuted, iceCurrent, iceExecLock,
                   icePc, iceStarts, iceUpdates, tPc, tActive, tExecuted, tCurrent,
                   iceHeadAfterStop, iceFilledPolls>>
    /\ UNCHANGED <<exchKind, NotIce>>

\* poll task: `while *is_active_clone.read().await`
IceTaskHead(t) ==
    /\ tPc[t] = "head"
    /\ tPc' = [tPc EXCEPT ![t] = IF tActive[t] THEN "tick" ELSE "done"]
    /\ iceHeadAfterStop' = (iceHeadAfterStop \/ (tActive[t] /\ iceStopped))
    /\ UNCHANGED <<iceTotal, iceDisplay, iceLimit, iceExecuted, iceActive, iceCurrent,
                   iceExecLock, icePc, iceStarts, iceUpdates, iceStopped, iceLast,
                   tActive, tExecuted, tCurrent, iceFilledPolls>>
    /\ UNCHANGED <<exVars, NotIce>>

\* poll task: `interval_timer.tick().await` (every second)
IceTaskTick(t) ==
    /\ tPc[t] = "tick"
    /\ tPc' = [tPc EXCEPT ![t] = "lock"]
    /\ UNCHANGED <<iceTotal, iceDisplay, iceLimit, iceExecuted, iceActive, iceCurrent,
                   iceExecLock, icePc, iceStarts, iceUpdates, iceStopped, iceLast,
                   tActive, tExecuted, tCurrent, iceHeadAfterStop, iceFilledPolls>>
    /\ UNCHANGED <<exVars, NotIce>>

\* poll task: `let _lock = execution_lock.lock().await`
IceTaskLock(t) ==
    /\ tPc[t] = "lock"
    /\ iceExecLock = 0
    /\ iceExecLock' = t
    /\ tPc' = [tPc EXCEPT ![t] = "body"]
    /\ UNCHANGED <<iceTotal, iceDisplay, iceLimit, iceExecuted, iceActive, iceCurrent,
                   icePc, iceStarts, iceUpdates, iceStopped, iceLast,
                   tActive, tExecuted, tCurrent, iceHeadAfterStop, iceFilledPolls>>
    /\ UNCHANGED <<exVars, NotIce>>

\* poll task, the block under the execution lock.  The block reads and
\* writes three cells; `shared` says whether they are the task's own cells
\* (as start() creates them) or the instance's fields.
\*   no current order: nothing
\*   Filled: executed += display_quantity; when executed >= total the flag is
\*     cleared and the loop is left; else the next portion is submitted
\*   Cancelled | Rejected | Expired: the next portion is submitted
\*   a submit that fails leaves the current id as it was
\* The lock guard is dropped at the end of the iteration.
IceTaskBodyOn(t, shared) ==
    /\ tPc[t] = "body"
    /\ iceExecLock = t
    /\ iceExecLock' = 0
    /\ LET cur == IF shared THEN iceCurrent ELSE tCurrent[t]
           exe == IF shared THEN iceExecuted ELSE tExecuted[t]
           st == IF cur = None THEN "none" ELSE ExchStatus(exOrders, exchKind, cur)
           exe2 == IF st = "Filled" THEN exe + iceDisplay ELSE exe
           finished == st = "Filled" /\ exe2 >= iceTotal
           resubmit == /\ st \in {"Filled", "Cancelled", "Rejected", "Expired"}
                       /\ ~finished
                       /\ iceTotal - exe2 > 0
       IN  \E ok \in BOOLEAN :
           /\ (~resubmit => ok)
           /\ exOrders' = IF resubmit /\ ok
                            THEN ExchSubmitted(exOrders, exchKind, "Limit",
                                     NextQuantity(iceDisplay, iceTotal - exe2), "ice")
                            ELSE exOrders
           /\ LET cur2 == IF resubmit /\ ok THEN GenerateOrderId(exOrders) ELSE cur IN
              IF shared
                THEN /\ iceExecuted' = exe2
                     /\ iceCurrent' = cur2
                     /\ iceActive' = IF finished THEN FALSE ELSE iceActive
                     /\ UNCHANGED <<tExecuted, tCurrent, tActive>>
                ELSE /\ tExecuted' = [tExecuted EXCEPT ![t] = exe2]
                     /\ tCurrent' = [tCurrent EXCEPT ![t] = cur2]
                     /\ tActive' = [tActive EXCEPT ![t] = IF finished THEN FALSE ELSE @]
                     /\ UNCHANGED <<iceExecuted, iceCurrent, iceActive>>
           /\ tPc' = [tPc EXCEPT ![t] = IF finished THEN "done" ELSE "head"]
    /\ iceFilledPolls' =
          IF iceCurrent # None /\ ExchStatus(exOrders, exchKind, iceCurrent) = "Filled"
            THEN Min(iceFilledPolls + 1, iceTotal)
            ELSE iceFilledPolls
    /\ UNCHANGED <<iceTotal, iceDisplay, iceLimit, icePc, iceStarts, iceUpdates,
                   iceStopped, iceLast, iceHeadAfterStop>>
    /\ UNCHANGED <<exchKind, NotIce>>

\* the poll block on the instance's own fields
IceTaskBodyShared(t) ==
    IceTaskBodyOn(t, TRUE)

\* the poll block as start() wires it: on the cells created at
\* iceberg_manager.rs:89-94, which no other code holds
IceTaskBody(t) ==
    IceTaskBodyOn(t, FALSE)

\* the venue fills an open order
ExchFill ==
    /\ \E id \in 1..Len(exOrders) :
        /\ exOrders[id].st \in OpenStatuses
        /\ exOrders' = [exOrders EXCEPT ![id].st = "Filled"]
    /\ UNCHANGED <<exchKind, omVars, spVars, iceVars, trVars, opsVars, stVars, btVars, libVars>>

----------------------------------------------------------------------------
(* TrailingStopManager: trailing_stop_manager.rs *)

\* start() calls that may spawn a task
MaxTrailStarts ==
    1
\* f64::MAX, the constructor's lowest_price
F64Max ==
    99999999

TrTasks == 1..MaxTrailStarts
\* closes the market moves between; every delta below is a whole number
\* of each
TrailPrices == {49000, 49500, 50000}
TrailDeltas == {1, 2}
\* the closes of the worked trailing-stop scenario, in poll order
S4Prices == <<50000, 49500, 49000, 50000>>
\* the scenario counter after one more poll has read `price`
S4After(n, price) ==
    IF n = Len(S4Prices) THEN n
    ELSE IF n # None /\ S4Prices[n + 1] = price THEN n + 1
    ELSE None

TrailChildren == {id \in 1..Len(exOrders) : exOrders[id].owner = "trail"}

\* tokio RwLock: a read guard is granted while no writer holds or waits;
\* a write guard once every read guard has been dropped
CanRead == exWriteWait = {}
CanWrite(readers) == readers = {} /\ exWriteWait = {}

\* `price * (trailing_delta / 100.0)`
DeltaAmount(price, delta) == (price * delta) \div 100

\* stop price: Buy trails the highest price down, Sell the lowest up
StopPrice(side, highest, lowest, delta) ==
    IF side = "Buy"
      THEN highest - DeltaAmount(highest, delta)
      ELSE lowest + DeltaAmount(lowest, delta)

StopTriggered(side, price, stop) ==
    IF side = "Buy" THEN price <= stop ELSE price >= stop

\* activation test of a task that is not yet activated
Activates(side, price, activation) ==
    \/ side = "Buy" /\ price <= activation
    \/ side = "Sell" /\ price >= activation

\* status(): (is_active, executed, current trigger price, quantity)
status ==
    <<trActive, trExecuted, StopPrice(trSide, trHighest, trLowest, trDelta), trQty>>

\* start(): AlreadyRunning on an active instance; else is_active = true,
\* executed = false, the close is read under a read guard (`?`: on Err
\* start() returns with is_active still true), the trackers are set, and the
\* task is spawned with cells of its own.
TrStart ==
    /\ IF StartRefused(trActive)
        THEN /\ trLast' = "AlreadyRunning"
             /\ UNCHANGED <<trActive, trExecuted, trHighest, trLowest, trStarts,
                            kPc, kActive, kHighest, kLowest, kExecuted, kStopId,
                            kActivated, kDelta>>
        ELSE /\ trStarts < MaxTrailStarts
             /\ CanRead
             /\ trActive' = TRUE
             /\ trExecuted' = FALSE
             /\ \E ok \in BOOLEAN :
                IF ok
                  THEN LET k == trStarts + 1 IN
                       /\ trHighest' = mktPrice
                       /\ trLowest' = mktPrice
                       /\ trStarts' = k
                       /\ trLast' = "Ok"
                       /\ kPc' = [kPc EXCEPT ![k] = "head"]
                       /\ kActive' = [kActive EXCEPT ![k] = TRUE]
                       /\ kHighest' = [kHighest EXCEPT ![k] = mktPrice]
                       /\ kLowest' = [kLowest EXCEPT ![k] = mktPrice]
                       /\ kExecuted' = [kExecuted EXCEPT ![k] = FALSE]
                       /\ kStopId' = [kStopId EXCEPT ![k] = None]
                       /\ kActivated' = [kActivated EXCEPT ![k] = (trActivation = {})]
                       /\ kDelta' = [kDelta EXCEPT ![k] = trDelta]
                  ELSE /\ trLast' = "DataNotFound"
                       /\ UNCHANGED <<trHighest, trLowest, trStarts, kPc, kActive,
                                      kHighest, kLowest, kExecuted, kStopId,
                                      kActivated, kDelta>>
    /\ UNCHANGED <<mktPrice, exReaders, exWriteWait, trSide, trQty, trDelta,
                   trActivation, trStopOrder, trS4Polls>>
    /\ UNCHANGED <<exVars, NotTr>>

\* stop(): Ok at once on an inactive instance; else self.is_active is
\* cleared, and a stop order that self knows of and that has not executed is
\* cancelled under the exchange write lock.
TrStop ==
    /\ IF StopSkipped(trActive)
        THEN UNCHANGED <<trActive, exOrders>>
        ELSE /\ trActive' = FALSE
             /\ IF trStopOrder # None /\ ~trExecuted
                  THEN /\ CanWrite(exReaders)
                       /\ exOrders' = ExchCancelled(exOrders, exchKind, trStopOrder)
                  ELSE UNCHANGED exOrders
    /\ trLast' = "StopOk"
    /\ UNCHANGED <<mktPrice, exReaders, exWriteWait, trSide, trQty, trDelta,
                   trActivation, trExecuted, trHighest, trLowest, trStopOrder, trStarts,
                   kPc, kActive, kHighest, kLowest, kExecuted, kStopId, kActivated,
                   kDelta, trS4Polls>>
    /\ UNCHANGED <<exchKind, NotTr>>

\* update_delta(): InvalidParameter unless positive; else the field is set
\* (a running task keeps the delta it captured)
TrUpdateDelta ==
    /\ \E d \in {0} \cup TrailDeltas :
        IF d <= 0
          THEN /\ trLast' = "InvalidParameter"
               /\ UNCHANGED trDelta
          ELSE /\ trDelta' = d
               /\ trLast' = "Ok"
    /\ UNCHANGED <<mktPrice, exReaders, exWriteWait, trSide, trQty, trActivation,
                   trExecuted, trActive, trHighest, trLowest, trStopOrder, trStarts,
                   kPc, kActive, kHighest, kLowest, kExecuted, kStopId, kActivated,
                   kDelta, trS4Polls>>
    /\ UNCHANGED <<exVars, NotTr>>

\* task: `while *is_active_clone.read().await`
TrTaskHead(k) ==
    /\ kPc[k] = "head"
    /\ kPc' = [kPc EXCEPT ![k] = IF kActive[k] THEN "tick" ELSE "done"]
    /\ UNCHANGED <<mktPrice, exReaders, exWriteWait, trSide, trQty, trDelta,
                   trActivation, trExecuted, trActive, trHighest, trLowest, trStopOrder,
                   trStarts, trLast, kActive, kHighest, kLowest, kExecuted, kStopId,
                   kActivated, kDelta, trS4Polls>>
    /\ UNCHANGED <<exVars, NotTr>>

\* task, one poll: tick; `let exchange = exchange_clone.read().await`, a
\* guard that lives to the end of the iteration; the close is read; the
\* activation test (`continue` while not activated); the task's trackers;
\* the stop test.  When the stop triggers and the task's executed cell is
\* false the task calls `exchange_clone.write().await` with its own read
\* guard still alive: if the write guard can be granted the Market order is
\* submitted and on Ok the task's cells are set and the loop is left; else
\* the task waits in write(), keeping its read guard.
TrTaskPoll(k) ==
    /\ kPc[k] = "tick"
    /\ CanRead
    /\ \E dataOk \in BOOLEAN, submitOk \in BOOLEAN :
       LET price == mktPrice
           readers == exReaders \cup {k}
           activation == CHOOSE a \in trActivation \cup {0} : trActivation # {} => a # 0
           activated == kActivated[k] \/ Activates(trSide, price, activation)
           highest == Max(kHighest[k], price)
           lowest == Min(kLowest[k], price)
           stop == StopPrice(trSide, highest, lowest, kDelta[k])
           fire == StopTriggered(trSide, price, stop) /\ ~kExecuted[k]
       IN
       IF ~dataOk
         THEN /\ submitOk
              /\ kPc' = [kPc EXCEPT ![k] = "head"]
              /\ UNCHANGED <<exReaders, exWriteWait, kActive, kHighest, kLowest,
                             kExecuted, kStopId, kActivated, trS4Polls, exOrders>>
         ELSE /\ trS4Polls' = S4After(trS4Polls, price)
              /\ kActivated' = [kActivated EXCEPT ![k] = activated]
              /\ IF ~activated
                   THEN /\ submitOk
                        /\ kPc' = [kPc EXCEPT ![k] = "head"]
                        /\ UNCHANGED <<exReaders, exWriteWait, kActive, kHighest,
                                       kLowest, kExecuted, kStopId, exOrders>>
                   ELSE /\ kHighest' = [kHighest EXCEPT ![k] = highest]
                        /\ kLowest' = [kLowest EXCEPT ![k] = lowest]
                        /\ IF ~fire
                             THEN /\ submitOk
                                  /\ kPc' = [kPc EXCEPT ![k] = "head"]
                                  /\ UNCHANGED <<exReaders, exWriteWait, kActive,
                                                 kExecuted, kStopId, exOrders>>
                             ELSE IF CanWrite(readers)
                               THEN /\ UNCHANGED <<exReaders, exWriteWait>>
                                    /\ IF submitOk
                                         THEN /\ exOrders' = ExchSubmitted(exOrders,
                                                     exchKind, "Market", trQty, "trail")
                                              /\ kStopId' = [kStopId EXCEPT
                                                     ![k] = GenerateOrderId(exOrders)]
                                              /\ kExecuted' = [kExecuted EXCEPT ![k] = TRUE]
                                              /\ kActive' = [kActive EXCEPT ![k] = FALSE]
                                              /\ kPc' = [kPc EXCEPT ![k] = "done"]
                                         ELSE /\ kPc' = [kPc EXCEPT ![k] = "head"]
                                              /\ UNCHANGED <<exOrders, kStopId,
                                                             kExecuted, kActive>>
                               ELSE /\ submitOk
                                    /\ exReaders' = readers
                                    /\ exWriteWait' = exWriteWait \cup {k}
                                    /\ kPc' = [kPc EXCEPT ![k] = "blocked"]
                                    /\ UNCHANGED <<exOrders, kStopId, kExecuted, kActive>>
    /\ UNCHANGED <<mktPrice, trSide, trQty, trDelta, trActivation, trExecuted, trActive,
                   trHighest, trLowest, trStopOrder, trStarts, trLast, kDelta>>
    /\ UNCHANGED <<exchKind, NotTr>>

\* the market moves
MarketMove ==
    /\ \E p \in TrailPrices \ {mktPrice} : mktPrice' = p
    /\ UNCHANGED <<exReaders, exWriteWait, trSide, trQty, trDelta, trActivation,
                   trExecuted, trActive, trHighest, trLowest, trStopOrder, trStarts,
                   trLast, kPc, kActive, kHighest, kLowest, kExecuted, kStopId,
                   kActivated, kDelta, trS4Polls>>
    /\ UNCHANGED <<exVars, NotTr>>

----------------------------------------------------------------------------
(* Strategies: strategies/twap.rs, iceberg.rs, technical.rs (over the RSI  *)
(* bot of trading_bots/rsi_bot.rs) and combined.rs.  A strategy is a       *)
(* record of its fields; update() and get_orders() are operators from a    *)
(* strategy to the strategy they leave behind.  A bar is a MarketData      *)
(* without open and volume, which none of these strategies reads; the      *)
(* position sizer is the FixedSizePositionSizer with strength_multiplier   *)
(* 0, so that position_size is base_position_size.                         *)

\* update() calls made on the strategy under test
MaxUpdates ==
    3
\* get_orders() calls made between two update() calls
MaxGetOrders ==
    2
\* RSIBot::new: `overbought` and `oversold` defaults
RsiOverbought ==
    70
RsiOversold ==
    30

Symbols == {"BTCUSDT", "ETHUSDT"}

\* Order::new(symbol, side, order_type, quantity, price)
NewOrder(symbol, side, typ, quantity, price) ==
    [symbol |-> symbol, side |-> side, order_type |-> typ, quantity |-> quantity,
     price |-> price]

\* TwapStrategy::new
TwapStrategyNew(symbol, side, total, interval, n) ==
    [kind |-> "twap", symbol |-> symbol, side |-> side, total_quantity |-> total,
     num_slices |-> n, executed_quantity |-> 0, current_market_data |-> {},
     is_active |-> TRUE, last_order_time |-> 0, slice_interval |-> interval \div n]

\* IcebergStrategy::new
IcebergStrategyNew(symbol, side, total, limit, display) ==
    [kind |-> "iceberg", symbol |-> symbol, side |-> side, total_quantity |-> total,
     limit_price |-> limit, display_quantity |-> Min(display, total),
     executed_quantity |-> 0, is_active |-> TRUE, current_market_data |-> {},
     price_condition_met |-> FALSE]

\* TechnicalStrategy::rsi: a TechnicalStrategy over RSIBot::new; avg is
\* {} while avg_gain and avg_loss are None, else {[gain, loss, scale]} for
\* avg_gain = gain/scale and avg_loss = loss/scale
TechnicalRsi(symbol, period, size) ==
    [kind |-> "technical", symbol |-> symbol, is_active |-> TRUE, period |-> period,
     gains |-> <<>>, losses |-> <<>>, avg |-> {}, prev_price |-> {},
     last_signal |-> {}, position_size |-> size, current_position |-> 0]

\* CombinedStrategy::new
CombinedStrategyNew(symbol, signal, execution) ==
    [kind |-> "combined", symbol |-> symbol, signal_strategy |-> signal,
     execution_strategy |-> execution, is_active |-> TRUE]

\* TrailingStopStrategy::new
TrailingStopStrategyNew(symbol, side, quantity, delta, activation) ==
    [kind |-> "trailing", symbol |-> symbol, side |-> side, quantity |-> quantity,
     entry_price |-> {}, trailing_delta |-> delta, activation_price |-> activation,
     highest_price |-> 0, lowest_price |-> F64Max, current_market_data |-> {},
     activated |-> (activation = {}), is_active |-> TRUE, executed |-> FALSE]

\* TrailingStopStrategy::set_entry_price
SetEntryPrice(s, price) ==
    [s EXCEPT !.entry_price = {price}, !.highest_price = price, !.lowest_price = price]

\* TrailingStopStrategy::calculate_stop_price; {} for None
CalculateStopPrice(s) ==
    IF s.current_market_data = {} THEN {}
    ELSE {StopPrice(s.side, s.highest_price, s.lowest_price, s.trailing_delta)}

\* TrailingStopStrategy::is_stop_triggered
IsStopTriggered(s) ==
    \E md \in s.current_market_data : \E stop \in CalculateStopPrice(s) :
        StopTriggered(s.side, md.close, stop)

\* TrailingStopStrategy::check_activation on the bar just stored: the
\* activation sets both trackers to the close
CheckActivation(s, md) ==
    IF s.activated \/ s.activation_price = {} THEN s
    ELSE IF Activates(s.side, md.close, CHOOSE a \in s.activation_price : TRUE)
      THEN [s EXCEPT !.activated = TRUE, !.highest_price = md.close,
                     !.lowest_price = md.close]
    ELSE s

\* TrailingStopStrategy::update
TrailingUpdate(s, md) ==
    IF md.symbol # s.symbol THEN s
    ELSE LET c == CheckActivation([s EXCEPT !.current_market_data = {md}], md) IN
         IF c.activated
           THEN [c EXCEPT !.highest_price = Max(@, md.close),
                          !.lowest_price = Min(@, md.close)]
           ELSE c

\* TwapStrategy::update
TwapUpdate(s, md) ==
    IF md.symbol # s.symbol THEN s ELSE [s EXCEPT !.current_market_data = {md}]

\* IcebergStrategy::check_price_condition on the bar just stored
CheckPriceCondition(side, limit, md) ==
    IF side = "Buy" THEN md.close <= limit ELSE md.close >= limit

\* IcebergStrategy::update
IcebergUpdate(s, md) ==
    IF md.symbol # s.symbol THEN s
    ELSE [s EXCEPT !.current_market_data = {md},
                   !.price_condition_met = CheckPriceCondition(s.side, s.limit_price, md)]

\* RelativeStrengthIndex::update: gain and loss against the previous
\* price; the first average when `period` changes have been seen, Wilder's
\* smoothing (and the oldest change dropped) after that
RsiUpdate(s, price) ==
    IF s.prev_price = {} THEN [s EXCEPT !.prev_price = {price}]
    ELSE LET prev == CHOOSE p \in s.prev_price : TRUE
             gain == IF price > prev THEN price - prev ELSE 0
             loss == IF price < prev THEN prev - price ELSE 0
             gs == Append(s.gains, gain)
             ls == Append(s.losses, loss)
         IN  IF Len(gs) = s.period
               THEN [s EXCEPT !.gains = gs, !.losses = ls, !.prev_price = {price},
                              !.avg = {[gain |-> SumSeq(gs), loss |-> SumSeq(ls),
                                        scale |-> s.period]}]
             ELSE IF Len(gs) > s.period /\ s.avg # {}
               THEN LET a == CHOOSE x \in s.avg : TRUE IN
                    [s EXCEPT !.gains = Tail(gs), !.losses = Tail(ls),
                              !.prev_price = {price},
                              !.avg = {[gain |-> a.gain * (s.period - 1) + gain * a.scale,
                                        loss |-> a.loss * (s.period - 1) + loss * a.scale,
                                        scale |-> a.scale * s.period]}]
             ELSE [s EXCEPT !.gains = gs, !.losses = ls, !.prev_price = {price}]

\* RelativeStrengthIndex::calculate and SignalType::from_strength: with
\* rs = avg_gain/avg_loss (100 when avg_loss is 0) and rsi = 100 - 100/(1+rs),
\* rsi above the overbought threshold gives a strength in (-1, -0.5), a
\* Sell or StrongSell; rsi below the oversold threshold a strength in
\* (0.5, 1], a Buy or StrongBuy; no signal between the thresholds
RsiSignal(a) ==
    IF a.loss = 0 THEN {"Sell"}
    ELSE IF 100 * a.gain > RsiOverbought * (a.gain + a.loss) THEN {"Sell"}
    ELSE IF 100 * a.gain < RsiOversold * (a.gain + a.loss) THEN {"Buy"}
    ELSE {}

\* TechnicalStrategy::update over RSIBot::update (the bar's symbol is not
\* looked at): the indicator takes the close; once it is ready last_signal
\* is the strongest signal, or None when there is none
TechnicalUpdate(s, md) ==
    IF ~s.is_active THEN s
    ELSE LET r == RsiUpdate(s, md.close) IN
         IF r.avg = {} THEN r
         ELSE [r EXCEPT !.last_signal = RsiSignal(CHOOSE x \in r.avg : TRUE)]

\* Strategy::update
RECURSIVE StrategyUpdate(_, _)
StrategyUpdate(s, md) ==
    IF s.kind = "twap" THEN TwapUpdate(s, md)
    ELSE IF s.kind = "iceberg" THEN IcebergUpdate(s, md)
    ELSE IF s.kind = "technical" THEN TechnicalUpdate(s, md)
    ELSE IF s.kind = "trailing" THEN TrailingUpdate(s, md)
    ELSE IF ~s.is_active THEN s
    ELSE [s EXCEPT !.signal_strategy = StrategyUpdate(s.signal_strategy, md),
                   !.execution_strategy = StrategyUpdate(s.execution_strategy, md)]

\* what get_orders() hands back: the strategy it leaves and the orders
Handed(s, orders) == [s |-> s, orders |-> orders]

\* TwapStrategy::get_orders; total_quantity / num_slices is exact for the
\* strategies of the model
TwapGetOrders(s) ==
    IF ~s.is_active \/ s.executed_quantity >= s.total_quantity THEN Handed(s, <<>>)
    ELSE IF s.current_market_data = {} THEN Handed(s, <<>>)
    ELSE LET md == CHOOSE m \in s.current_market_data : TRUE
             current_time == md.timestamp
             remaining == s.total_quantity - s.executed_quantity
             slice_quantity == Min(s.total_quantity \div s.num_slices, remaining)
         IN  IF s.last_order_time > 0 /\ current_time - s.last_order_time < s.slice_interval
               THEN Handed(s, <<>>)
             ELSE IF remaining <= 0
               THEN Handed([s EXCEPT !.is_active = FALSE], <<>>)
             ELSE Handed([s EXCEPT !.executed_quantity = @ + slice_quantity,
                                   !.last_order_time = current_time,
                                   !.is_active = (s.executed_quantity + slice_quantity
                                                    < s.total_quantity)],
                         <<NewOrder(s.symbol, s.side, "Market", slice_quantity, md.close)>>)

\* IcebergStrategy::get_orders
IcebergGetOrders(s) ==
    IF ~s.is_active \/ s.executed_quantity >= s.total_quantity THEN Handed(s, <<>>)
    ELSE IF ~s.price_condition_met THEN Handed(s, <<>>)
    ELSE LET remaining == s.total_quantity - s.executed_quantity
             next_quantity == Min(s.display_quantity, remaining)
         IN  IF remaining <= 0
               THEN Handed([s EXCEPT !.is_active = FALSE], <<>>)
             ELSE Handed([s EXCEPT !.executed_quantity = @ + next_quantity,
                                   !.is_active = (s.executed_quantity + next_quantity
                                                    < s.total_quantity)],
                         <<NewOrder(s.symbol, s.side, "Limit", next_quantity,
                                    s.limit_price)>>)

\* create_order_from_signal for Buy/StrongBuy and Sell/StrongSell
CreateOrderFromSignal(symbol, signal, position_size, current_position) ==
    IF signal = "Buy"
      THEN IF current_position <= 0
             THEN <<NewOrder(symbol, "Buy", "Market", position_size, 0)>> ELSE <<>>
      ELSE IF current_position >= 0
             THEN <<NewOrder(symbol, "Sell", "Market", position_size, 0)>> ELSE <<>>

\* TechnicalStrategy::get_orders over RSIBot::generate_orders(&self)
TechnicalGetOrders(s) ==
    IF ~s.is_active \/ s.last_signal = {} THEN Handed(s, <<>>)
    ELSE Handed(s, CreateOrderFromSignal(s.symbol, CHOOSE x \in s.last_signal : TRUE,
                                         s.position_size, s.current_position))

\* TrailingStopStrategy::get_orders
TrailingGetOrders(s) ==
    IF ~s.is_active \/ s.executed \/ ~s.activated THEN Handed(s, <<>>)
    ELSE IF IsStopTriggered(s)
      THEN Handed([s EXCEPT !.executed = TRUE, !.is_active = FALSE],
                  <<NewOrder(s.symbol, s.side, "Market", s.quantity,
                             (CHOOSE m \in s.current_market_data : TRUE).close)>>)
    ELSE Handed(s, <<>>)

\* market_data_from_order: a bar at the wall-clock time `now`
MarketDataFromOrder(order, now) ==
    [symbol |-> order.symbol, timestamp |-> now, close |-> order.price,
     low |-> order.price, high |-> order.price]

\* Strategy::get_orders; `now` is what chrono::Utc::now() returns during
\* the call.  CombinedStrategy: every order of the signal strategy is put
\* to the execution strategy as a bar, and the execution strategy's orders
\* are collected
RECURSIVE StrategyGetOrders(_, _)
RECURSIVE ExecuteSignals(_, _, _, _)
ExecuteSignals(exec, signal_orders, now, acc) ==
    IF signal_orders = <<>> THEN Handed(exec, acc)
    ELSE LET h == StrategyGetOrders(
                     StrategyUpdate(exec, MarketDataFromOrder(Head(signal_orders), now)),
                     now)
         IN  ExecuteSignals(h.s, Tail(signal_orders), now, acc \o h.orders)

StrategyGetOrders(s, now) ==
    IF s.kind = "twap" THEN TwapGetOrders(s)
    ELSE IF s.kind = "iceberg" THEN IcebergGetOrders(s)
    ELSE IF s.kind = "technical" THEN TechnicalGetOrders(s)
    ELSE IF s.kind = "trailing" THEN TrailingGetOrders(s)
    ELSE IF ~s.is_active THEN Handed(s, <<>>)
    ELSE LET sig == StrategyGetOrders(s.signal_strategy, now)
             ex == ExecuteSignals(s.execution_strategy, sig.orders, now, <<>>)
         IN  Handed([s EXCEPT !.signal_strategy = sig.s, !.execution_strategy = ex.s],
                    ex.orders)

\* the bars a strategy under test is updated with, and the wall-clock
\* readings of the model
StratBars ==
    {[symbol |-> sym, timestamp |-> ts, close |-> c, low |-> c, high |-> c] :
        sym \in Symbols, ts \in {1000, 2000}, c \in {10000, 20000}}

WallClocks == {5000, 6000}

\* the strategies of the model
SignalStrategies ==
    {TechnicalRsi("BTCUSDT", 1, 1), TechnicalRsi("BTCUSDT", 2, 1)}

ExecutionStrategies ==
    {TwapStrategyNew("BTCUSDT", "Buy", 2, 2000, 2),
     TwapStrategyNew("ETHUSDT", "Buy", 2, 2000, 2),
     IcebergStrategyNew("BTCUSDT", "Sell", 2, 10000, 1)}

Strategies ==
    SignalStrategies
      \cup ExecutionStrategies
      \cup {CombinedStrategyNew("BTCUSDT", TechnicalRsi("BTCUSDT", 1, 1),
                                TwapStrategyNew("BTCUSDT", "Buy", 2, 2000, 2))}

\* the trailing-stop strategies of the model, and the entry prices they
\* may be given
TrailingStrategies ==
    {TrailingStopStrategyNew("BTCUSDT", side, 1, 2, a) :
        side \in {"Buy", "Sell"}, a \in {{}, {10000}}}

EntryPrices == {10000, 20000}

\* one strategy, as its caller sees it: update() with a bar
StUpdate ==
    /\ stUpdates < MaxUpdates
    /\ \E md \in StratBars :
        /\ stStrategy' = StrategyUpdate(stStrategy, md)
        /\ md.timestamp >= stLastTs
        /\ stLastTs' = md.timestamp
    /\ stUpdates' = stUpdates + 1
    /\ stCalls' = 0
    /\ stHanded' = <<>>
    /\ UNCHANGED stNow
    /\ UNCHANGED <<exVars, omVars, spVars, iceVars, trVars, opsVars, btVars, libVars>>

\* set_entry_price() on a trailing-stop strategy, once per position
StSetEntryPrice ==
    /\ stStrategy.kind = "trailing"
    /\ stStrategy.entry_price = {}
    /\ \E price \in EntryPrices : stStrategy' = SetEntryPrice(stStrategy, price)
    /\ UNCHANGED <<stUpdates, stCalls, stHanded, stLastTs, stNow>>
    /\ UNCHANGED <<exVars, omVars, spVars, iceVars, trVars, opsVars, btVars, libVars>>

\* get_orders(): the orders are appended to what was handed out since the
\* last update(); the wall clock does not run backwards
StGetOrders ==
    /\ stCalls < MaxGetOrders
    /\ \E now \in WallClocks :
        /\ now >= stNow
        /\ stNow' = now
        /\ LET h == StrategyGetOrders(stStrategy, now) IN
             /\ stStrategy' = h.s
             /\ stHanded' = stHanded \o h.orders
    /\ stCalls' = stCalls + 1
    /\ UNCHANGED <<stUpdates, stLastTs>>
    /\ UNCHANGED <<exVars, omVars, spVars, iceVars, trVars, opsVars, btVars, libVars>>

----------------------------------------------------------------------------
(* BacktestEngine: backtest/engine.rs.  The engine is a record of its      *)
(* fields and of the locals of run(); balances, prices and quantities are  *)
(* integers, fee_rate and slippage are percentages, and the prices of the  *)
(* model are multiples of 100 so that every product below is exact.        *)

\* add_strategy calls made before run()
MaxStrategies ==
    2

Currencies == {"BTC", "ETH", "USDT"}

\* `&order.symbol[0..3]` and `&order.symbol[3..]`
BaseCurrency(symbol) == IF symbol = "BTCUSDT" THEN "BTC" ELSE "ETH"
QuoteCurrency(symbol) == "USDT"

\* one bar of a series
Bar(symbol, ts, close) ==
    [symbol |-> symbol, timestamp |-> ts, close |-> close, low |-> close, high |-> close]

\* what the data provider's load_data returns: symbol -> series in time
\* order (read_csv_file sorts the series by timestamp)
DataSets ==
    {("BTCUSDT" :> <<Bar("BTCUSDT", 1000, 20000), Bar("BTCUSDT", 2000, 10000),
                     Bar("BTCUSDT", 3000, 10000)>>),
     ("BTCUSDT" :> <<Bar("BTCUSDT", 1000, 20000), Bar("BTCUSDT", 2000, 10000)>>)
        @@ ("ETHUSDT" :> <<Bar("ETHUSDT", 1000, 10000), Bar("ETHUSDT", 2000, 10000)>>)}

\* initial_balance given to the constructor
InitialBalances ==
    {("USDT" :> 15000),
     ("USDT" :> 20100),
     ("USDT" :> 100000) @@ ("BTC" :> 2),
     ("BTC" :> 1)}

\* <<start_time, end_time>> given to the constructor
Windows == {<<1000, 3000>>, <<2000, 3000>>, <<4000, 5000>>}

\* fee_rate and slippage, in percent
FeeRates == {0, 1}
Slippages == {0, 1}

\* the orders in which a HashMap with the keys S may be iterated
Orderings(S) ==
    {f \in [1..Cardinality(S) -> S] :
        \A i, j \in 1..Cardinality(S) : i # j => f[i] # f[j]}

\* Vec::sort_by on the timestamp: a stable sort
RECURSIVE SortByTime(_)
SortByTime(tl) ==
    IF tl = <<>> THEN <<>>
    ELSE LET m == CHOOSE t \in {tl[i][1] : i \in 1..Len(tl)} :
                      \A i \in 1..Len(tl) : t <= tl[i][1]
         IN  SelectSeq(tl, LAMBDA x : x[1] = m)
                \o SortByTime(SelectSeq(tl, LAMBDA x : x[1] # m))

\* run(): the timeline pushed symbol by symbol, in the order the keys of
\* market_data are iterated
RECURSIVE PushTimeline(_, _)
PushTimeline(market_data, symbols) ==
    IF symbols = <<>> THEN <<>>
    ELSE [i \in 1..Len(market_data[Head(symbols)]) |->
              <<market_data[Head(symbols)][i].timestamp, Head(symbols)>>]
            \o PushTimeline(market_data, Tail(symbols))

\* run(): the sorted timeline, filtered to the window
FilteredTimeline(market_data, symbols, start_time, end_time) ==
    SelectSeq(SortByTime(PushTimeline(market_data, symbols)),
              LAMBDA x : x[1] >= start_time /\ x[1] <= end_time)

\* get_current_market_data: the first bar of the series whose timestamp is
\* at or before `time`; {} for DataNotFound
GetCurrentMarketData(market_data, symbol, time) ==
    IF symbol \notin DOMAIN market_data THEN {}
    ELSE LET series == market_data[symbol]
             hits == {i \in 1..Len(series) : series[i].timestamp <= time}
         IN  IF hits = {} THEN {}
             ELSE {series[CHOOSE i \in hits : \A j \in hits : i <= j]}

\* `*balance.entry(currency).or_insert(0.0) += amount`
BalanceAdd(balance, currency, amount) ==
    IF currency \in DOMAIN balance
      THEN [balance EXCEPT ![currency] = @ + amount]
      ELSE balance @@ (currency :> amount)

\* execute_trade: the balances move and the trade is recorded
ExecuteTrade(e, order, price, quantity, time) ==
    LET base == BaseCurrency(order.symbol)
        quote == QuoteCurrency(order.symbol)
        bal == IF order.side = "Buy"
                 THEN BalanceAdd(BalanceAdd(e.current_balance, base, quantity), quote,
                                 0 - ((quantity * price * (100 + e.fee_rate)) \div 100))
                 ELSE BalanceAdd(BalanceAdd(e.current_balance, base, 0 - quantity), quote,
                                 (quantity * price * (100 - e.fee_rate)) \div 100)
        trade == [id |-> Len(e.trades) + 1, symbol |-> order.symbol, price |-> price,
                  quantity |-> quantity, timestamp |-> time, order_id |-> order.id,
                  side |-> order.side]
    IN  [e EXCEPT !.current_balance = bal, !.trades = Append(e.trades, trade)]

\* process_order, the balance check: InsufficientBalance when the quote
\* (Buy) or base (Sell) balance is missing or too small
BalanceSuffices(e, order) ==
    IF order.side = "Buy"
      THEN /\ QuoteCurrency(order.symbol) \in DOMAIN e.current_balance
           /\ e.current_balance[QuoteCurrency(order.symbol)] * 100
                >= order.quantity * order.price * (100 + e.fee_rate)
      ELSE /\ BaseCurrency(order.symbol) \in DOMAIN e.current_balance
           /\ e.current_balance[BaseCurrency(order.symbol)] >= order.quantity

\* `market_data.low <= order.price` (Buy), `market_data.high >= order.price`
CanExecute(order, md) ==
    IF order.side = "Buy" THEN md.low <= order.price ELSE md.high >= order.price

\* process_order: e.err is the error it returns, "Ok" otherwise
ProcessOrder(e, order0, time) ==
    LET order_id == e.order_id_counter + 1
        order == [id |-> order_id] @@ order0
        e1 == [e EXCEPT !.order_id_counter = order_id]
        found == GetCurrentMarketData(e.market_data, order.symbol, time)
    IN  IF found = {} THEN [e1 EXCEPT !.err = "DataNotFound"]
        ELSE IF ~BalanceSuffices(e1, order) THEN [e1 EXCEPT !.err = "InsufficientBalance"]
        ELSE LET md == CHOOSE m \in found : TRUE IN
             IF order.order_type = "Market"
               THEN ExecuteTrade(e1, order,
                                 IF order.side = "Buy"
                                   THEN (md.close * (100 + e.slippage)) \div 100
                                   ELSE (md.close * (100 - e.slippage)) \div 100,
                                 order.quantity, time)
             ELSE IF CanExecute(order, md)
               THEN ExecuteTrade(e1, order, order.price, order.quantity, time)
             ELSE [e1 EXCEPT !.orders = @ @@ (order_id :> order)]

\* run(): `for order in new_orders { self.process_order(order, time)?; }`
RECURSIVE ProcessOrders(_, _, _)
ProcessOrders(e, orders, time) ==
    IF orders = <<>> \/ e.err # "Ok" THEN e
    ELSE ProcessOrders(ProcessOrder(e, Head(orders), time), Tail(orders), time)

\* run(): `for i in 0..self.strategies.len()`: update, get_orders, and the
\* new orders processed, strategy by strategy
RECURSIVE RunStrategies(_, _, _, _, _)
RunStrategies(e, i, data, time, now) ==
    IF i > Len(e.strategies) \/ e.err # "Ok" THEN e
    ELSE LET h == StrategyGetOrders(StrategyUpdate(e.strategies[i], data), now)
             e1 == [e EXCEPT !.strategies[i] = h.s]
         IN  RunStrategies(ProcessOrders(e1, h.orders, time), i + 1, data, time, now)

\* process_pending_orders, over the order ids in the order `ids`
RECURSIVE ProcessPendingOrders(_, _, _)
ProcessPendingOrders(e, ids, time) ==
    IF ids = <<>> \/ e.err # "Ok" THEN e
    ELSE LET order_id == Head(ids) IN
         IF order_id \notin DOMAIN e.orders THEN ProcessPendingOrders(e, Tail(ids), time)
         ELSE LET order == e.orders[order_id]
                  found == GetCurrentMarketData(e.market_data, order.symbol, time)
              IN  IF found = {} THEN [e EXCEPT !.err = "DataNotFound"]
                  ELSE IF order.order_type = "Limit"
                            /\ CanExecute(order, CHOOSE m \in found : TRUE)
                    THEN ProcessPendingOrders(
                            ExecuteTrade(
                               [e EXCEPT !.orders =
                                   [k \in (DOMAIN e.orders) \ {order_id} |-> e.orders[k]]],
                               order, order.price, order.quantity, time),
                            Tail(ids), time)
                  ELSE ProcessPendingOrders(e, Tail(ids), time)

\* run(), one pass of `for (time, symbol) in filtered_timeline`, for every
\* wall-clock reading and every iteration order of the pending orders
ReplayEntry(e) ==
    LET time == e.timeline[e.pos][1]
        symbol == e.timeline[e.pos][2]
        found == GetCurrentMarketData(e.market_data, symbol, time)
        e0 == [e EXCEPT !.pos = @ + 1, !.current_time = time, !.current_data = found]
    IN  IF found = {} THEN {[e0 EXCEPT !.err = "DataNotFound"]}
        ELSE UNION {
               LET e1 == RunStrategies([e0 EXCEPT !.now = now], 1,
                                       CHOOSE m \in found : TRUE, time, now)
               IN  {ProcessPendingOrders(e1, ids, time) : ids \in Orderings(DOMAIN e1.orders)}
               : now \in {w \in WallClocks : w >= e.now}}

\* the sum of f over the set S
RECURSIVE SumOver(_, _)
SumOver(S, f) ==
    IF S = {} THEN 0
    ELSE LET x == CHOOSE y \in S : TRUE IN f[x] + SumOver(S \ {x}, f)

\* generate_result: the value of a balance sheet, USDT at par and any other
\* currency at the close get_current_market_data finds for <currency>USDT
PortfolioValue(e, balance, end_time) ==
    SumOver(DOMAIN balance,
            [c \in DOMAIN balance |->
                IF c = "USDT" THEN balance[c]
                ELSE LET found == GetCurrentMarketData(
                                     e.market_data,
                                     IF c = "BTC" THEN "BTCUSDT" ELSE "ETHUSDT", end_time)
                     IN  IF found = {} THEN 0
                         ELSE balance[c] * (CHOOSE m \in found : TRUE).close])

\* calculate_total_fees
TotalFees(e) ==
    SumOver(1..Len(e.trades),
            [i \in 1..Len(e.trades) |->
                (e.trades[i].price * e.trades[i].quantity * e.fee_rate) \div 100])

\* generate_result; profit_percentage is the quotient of the pair
GenerateResult(e, end_time) ==
    LET initial_value == PortfolioValue(e, e.initial_balance, end_time)
        final_value == PortfolioValue(e, e.current_balance, end_time)
    IN  [start_time |-> e.start_time, end_time |-> end_time,
         initial_balance |-> e.initial_balance, final_balance |-> e.current_balance,
         initial_value |-> initial_value, final_value |-> final_value,
         profit |-> final_value - initial_value,
         profit_percentage |-> <<(final_value - initial_value) * 100, initial_value>>,
         trades |-> e.trades, fee_paid |-> TotalFees(e)]

\* what run() returns: the error, or Ok with the BacktestResult
Returned(e) ==
    [status |-> e.err,
     result |-> IF e.err = "Ok" THEN {GenerateResult(e, e.current_time)} ELSE {}]

\* run() up to its loop: load_data, and the timeline for the iteration order
\* `symbols` of the keys of market_data
Loaded(e, data, symbols) ==
    [e EXCEPT !.market_data = data,
              !.timeline = FilteredTimeline(data, symbols, e.start_time, e.end_time),
              !.pos = 1,
              !.current_time = e.start_time]

\* everything run() may return once its loop stands at e
RECURSIVE LoopOutcomes(_)
LoopOutcomes(e) ==
    IF e.err # "Ok" \/ e.pos > Len(e.timeline) THEN {Returned(e)}
    ELSE UNION {LoopOutcomes(e2) : e2 \in ReplayEntry(e)}

\* everything run() may return on the engine e loaded with `data`
RunOutcomes(e, data) ==
    UNION {LoopOutcomes(Loaded(e, data, symbols)) : symbols \in Orderings(DOMAIN data)}

\* the engine and the locals of its run()
Engine ==
    [market_data |-> btMarketData, start_time |-> btStart, end_time |-> btEnd,
     initial_balance |-> btInitial, current_balance |-> btBalance, orders |-> btOrders,
     trades |-> btTrades, strategies |-> btStrategies, fee_rate |-> btFee,
     slippage |-> btSlip, order_id_counter |-> btCounter, timeline |-> btTimeline,
     pos |-> btPos, current_time |-> btCurrentTime, current_data |-> btCurrentData,
     now |-> btNow, err |-> "Ok"]

\* the engine after a step is e
Becomes(e) ==
    /\ btMarketData' = e.market_data
    /\ btBalance' = e.current_balance
    /\ btOrders' = e.orders
    /\ btTrades' = e.trades
    /\ btStrategies' = e.strategies
    /\ btCounter' = e.order_id_counter
    /\ btTimeline' = e.timeline
    /\ btPos' = e.pos
    /\ btCurrentTime' = e.current_time
    /\ btCurrentData' = e.current_data
    /\ btNow' = e.now

\* add_strategy, before run()
BtAddStrategy ==
    /\ btPc = "new"
    /\ Len(btStrategies) < MaxStrategies
    /\ \E s \in Strategies : btStrategies' = Append(btStrategies, s)
    /\ UNCHANGED <<btProvider, btStart, btEnd, btInitial, btFee, btSlip, btMarketData,
                   btBalance, btOrders, btTrades, btCounter, btTimeline, btPos,
                   btCurrentTime, btCurrentData, btNow, btPc, btReturned>>
    /\ UNCHANGED <<exVars, omVars, spVars, iceVars, trVars, opsVars, stVars, libVars>>

\* run(), up to its loop
BtLoad ==
    /\ btPc = "new"
    /\ \E symbols \in Orderings(DOMAIN btProvider) :
          Becomes(Loaded(Engine, btProvider, symbols))
    /\ btPc' = "loop"
    /\ UNCHANGED <<btProvider, btStart, btEnd, btInitial, btFee, btSlip, btReturned>>
    /\ UNCHANGED <<exVars, omVars, spVars, iceVars, trVars, opsVars, stVars, libVars>>

\* run(), one timeline entry; an error leaves run() through a `?`
BtEntry ==
    /\ btPc = "loop"
    /\ btPos <= Len(btTimeline)
    /\ \E e \in ReplayEntry(Engine) :
        /\ Becomes(e)
        /\ IF e.err = "Ok"
             THEN UNCHANGED <<btPc, btReturned>>
             ELSE /\ btPc' = "done"
                  /\ btReturned' = Returned(e)
    /\ UNCHANGED <<btProvider, btStart, btEnd, btInitial, btFee, btSlip>>
    /\ UNCHANGED <<exVars, omVars, spVars, iceVars, trVars, opsVars, stVars, libVars>>

\* run(), after its loop: generate_result(current_time)
BtGenerate ==
    /\ btPc = "loop"
    /\ btPos > Len(btTimeline)
    /\ btPc' = "done"
    /\ btReturned' = Returned(Engine)
    /\ UNCHANGED <<btProvider, btStart, btEnd, btInitial, btFee, btSlip, btMarketData,
                   btBalance, btOrders, btTrades, btStrategies, btCounter, btTimeline,
                   btPos, btCurrentTime, btCurrentData, btNow>>
    /\ UNCHANGED <<exVars, omVars, spVars, iceVars, trVars, opsVars, stVars, libVars>>

----------------------------------------------------------------------------
(* Indicators and signals: indicators/moving_averages.rs (the crossover of *)
(* two SimpleMovingAverage, MovingAverageCrossover::with_sma) and          *)
(* signals/signal_types.rs.  An average is kept as its window of values;   *)
(* two averages are compared by cross-multiplying sum and length, and a    *)
(* strength is counted in hundredths.                                      *)

\* <<fast_period, slow_period>> given to with_sma
CrossoverPeriods == {<<1, 2>>, <<2, 3>>}

\* the prices update() is given
IndicatorPrices == {10, 12}

\* the strengths from_strength is given, in hundredths: every tenth from
\* -1.0 to 1.0
Strengths == {10 * k : k \in (0 - 10)..10}

\* MovingAverageCrossover::with_sma
CrossoverWithSma(fast_period, slow_period) ==
    [fast_period |-> fast_period, slow_period |-> slow_period, fast |-> <<>>,
     slow |-> <<>>, last_fast |-> {}, last_slow |-> {}]

\* SimpleMovingAverage::update: the price is pushed and the oldest value
\* popped once the window is over the period
SmaUpdate(values, period, price) ==
    LET pushed == Append(values, price) IN
    IF Len(pushed) > period THEN Tail(pushed) ELSE pushed

\* SimpleMovingAverage::is_ready
SmaReady(values, period) == Len(values) >= period

\* comparisons of two averages sum/len, each given as its window
AverageAbove(a, b) == SumSeq(a) * Len(b) > SumSeq(b) * Len(a)
AverageAtOrBelow(a, b) == ~AverageAbove(a, b)

\* MovingAverageCrossover::update
CrossoverUpdate(ind, price) ==
    [ind EXCEPT !.fast = SmaUpdate(@, ind.fast_period, price),
                !.slow = SmaUpdate(@, ind.slow_period, price)]

\* MovingAverageCrossover::is_ready
CrossoverReady(ind) ==
    SmaReady(ind.fast, ind.fast_period) /\ SmaReady(ind.slow, ind.slow_period)

\* an IndicatorSignal
Signal(name, strength) == [name |-> name, strength |-> strength]

\* MovingAverageCrossover::calculate: InsufficientData until both averages
\* are ready; the crossover test needs last_fast and last_slow, which hold
\* the windows of the averages they were taken from
CrossoverCalculate(ind) ==
    IF ~CrossoverReady(ind)
      THEN [status |-> "InsufficientData", signals |-> <<>>, value |-> <<0, 1>>]
      ELSE [status |-> "Ok",
            signals |->
              IF ind.last_fast = {} \/ ind.last_slow = {} THEN <<>>
              ELSE LET prev_fast == CHOOSE x \in ind.last_fast : TRUE
                       prev_slow == CHOOSE x \in ind.last_slow : TRUE
                   IN  IF AverageAtOrBelow(prev_fast, prev_slow)
                            /\ AverageAbove(ind.fast, ind.slow)
                         THEN <<Signal("Golden Cross", 80)>>
                       ELSE IF AverageAtOrBelow(prev_slow, prev_fast)
                            /\ AverageAbove(ind.slow, ind.fast)
                         THEN <<Signal("Death Cross", 0 - 80)>>
                       ELSE <<>>,
            value |-> <<SumSeq(ind.fast) * Len(ind.slow) - SumSeq(ind.slow) * Len(ind.fast),
                        Len(ind.fast) * Len(ind.slow)>>]

\* SignalType::from_strength
FromStrength(s) ==
    IF s > 70 THEN "StrongBuy"
    ELSE IF s > 30 THEN "Buy"
    ELSE IF s > 0 THEN "ReduceShort"
    ELSE IF s < 0 - 70 THEN "StrongSell"
    ELSE IF s < 0 - 30 THEN "Sell"
    ELSE IF s < 0 THEN "ReduceLong"
    ELSE "Neutral"

\* update(price) on the crossover indicator
MaUpdate ==
    /\ \E price \in IndicatorPrices : maIndicator' = CrossoverUpdate(maIndicator, price)
    /\ maPrev' = [fast |-> maIndicator.fast, slow |-> maIndicator.slow]
    /\ maResult' = [status |-> "none", signals |-> <<>>, value |-> <<0, 1>>]
    /\ UNCHANGED <<sgStrength, sgType>>
    /\ UNCHANGED <<exVars, omVars, spVars, iceVars, trVars, opsVars, stVars, btVars, smVars, rtVars>>

\* calculate(&self) on the crossover indicator
MaCalculate ==
    /\ maResult' = CrossoverCalculate(maIndicator)
    /\ UNCHANGED <<maIndicator, maPrev, sgStrength, sgType>>
    /\ UNCHANGED <<exVars, omVars, spVars, iceVars, trVars, opsVars, stVars, btVars, smVars, rtVars>>

\* SignalType::from_strength(strength)
SgFromStrength ==
    /\ \E s \in Strengths :
        /\ sgStrength' = s
        /\ sgType' = FromStrength(s)
    /\ UNCHANGED <<maIndicator, maPrev, maResult>>
    /\ UNCHANGED <<exVars, omVars, spVars, iceVars, trVars, opsVars, stVars, btVars, smVars, rtVars>>

----------------------------------------------------------------------------
(* StrategyManager: core/strategy_manager.rs.  A registered strategy is    *)
(* its is_active flag; whether its update() fails on a bar is the          *)
(* strategy's business and is an input of update_all.                      *)

StrategyNames == {"RSI-BTCUSDT", "TWAP-BTCUSDT", "Combined-BTCUSDT"}

\* Vec::retain(|s| s != name)
Retain(list, name) == SelectSeq(list, LAMBDA x : x # name)

\* Vec::contains
Contains(list, name) == \E i \in 1..Len(list) : list[i] = name

\* a walk that goes on after a failed update
RECURSIVE UpdatedDespiteFailure(_, _, _)
UpdatedDespiteFailure(list, registered, fails) ==
    IF list = <<>> THEN <<>>
    ELSE IF Head(list) \notin registered \/ Head(list) \in fails
      THEN UpdatedDespiteFailure(Tail(list), registered, fails)
    ELSE <<Head(list)>> \o UpdatedDespiteFailure(Tail(list), registered, fails)

\* the walk of update_all over `list`: the names updated before the first
\* strategy whose update fails
RECURSIVE UpdatedBeforeFailure(_, _, _)
UpdatedBeforeFailure(list, registered, fails) ==
    IF list = <<>> THEN <<>>
    ELSE IF Head(list) \notin registered
      THEN UpdatedBeforeFailure(Tail(list), registered, fails)
    ELSE IF Head(list) \in fails THEN <<>>
    ELSE <<Head(list)>> \o UpdatedBeforeFailure(Tail(list), registered, fails)

\* the walk of update_all: the names of the strategies whose update fails,
\* in walk order
FailingIn(list, registered, fails) ==
    SelectSeq(list, LAMBDA x : x \in registered /\ x \in fails)

\* what a call leaves in smLast
Called(op, name, result, fails) ==
    [op |-> op, name |-> name, status |-> result, fails |-> fails]

\* a removal that leaves the active list alone
RemoveStrategyKeepActive(strategies, active, name) ==
    [strategies |-> [n \in (DOMAIN strategies) \ {name} |-> strategies[n]],
     active |-> active]

\* remove_strategy: the map entry is removed and the name retained out of
\* the active list
RemoveStrategy(strategies, active, name) ==
    [strategies |-> [n \in (DOMAIN strategies) \ {name} |-> strategies[n]],
     active |-> Retain(active, name)]

\* add_strategy: DuplicateStrategy on a registered name; else the strategy
\* is inserted and, when it is active, its name pushed on the active list
SmAdd ==
    /\ \E name \in StrategyNames, is_active \in BOOLEAN :
        IF name \in DOMAIN smStrategies
          THEN /\ smLast' = Called("add", name, "DuplicateStrategy", {})
               /\ smPhase' = [smPhase EXCEPT ![name] =
                                 IF @ = "removed" THEN "failed" ELSE "none"]
               /\ UNCHANGED <<smStrategies, smActive, smRegistered>>
          ELSE /\ smStrategies' = smStrategies @@ (name :> is_active)
               /\ smActive' = IF is_active THEN Append(smActive, name) ELSE smActive
               /\ smRegistered' = Append(smRegistered, name)
               /\ smLast' = Called("add", name, "Ok", {})
               /\ smPhase' = [smPhase EXCEPT ![name] =
                                 IF @ = "removed" THEN "readded" ELSE "added"]
    /\ UNCHANGED smUpdated
    /\ UNCHANGED <<exVars, omVars, spVars, iceVars, trVars, opsVars, stVars, btVars, sigVars, rtVars>>

\* remove_strategy: StrategyNotFound on an unknown name
SmRemove ==
    /\ \E name \in StrategyNames :
        IF name \notin DOMAIN smStrategies
          THEN /\ smLast' = Called("remove", name, "StrategyNotFound", {})
               /\ smPhase' = [smPhase EXCEPT ![name] =
                                 IF @ = "added" THEN "failed" ELSE "none"]
               /\ UNCHANGED <<smStrategies, smActive, smRegistered>>
          ELSE LET r == RemoveStrategy(smStrategies, smActive, name) IN
               /\ smStrategies' = r.strategies
               /\ smActive' = r.active
               /\ smRegistered' = Retain(smRegistered, name)
               /\ smLast' = Called("remove", name, "Ok", {})
               /\ smPhase' = [smPhase EXCEPT ![name] =
                                 IF @ = "added" THEN "removed" ELSE "none"]
    /\ UNCHANGED smUpdated
    /\ UNCHANGED <<exVars, omVars, spVars, iceVars, trVars, opsVars, stVars, btVars, sigVars, rtVars>>

\* set_strategy_active: StrategyNotFound on an unknown name; else the
\* strategy's flag is set, and the name is pushed on the active list unless
\* it is there (true) or retained out of it (false)
SmSetActive ==
    /\ \E name \in StrategyNames, active \in BOOLEAN :
        /\ IF name \notin DOMAIN smStrategies
             THEN /\ smLast' = Called("set_active", name, "StrategyNotFound", {})
                  /\ UNCHANGED <<smStrategies, smActive>>
             ELSE /\ smStrategies' = [smStrategies EXCEPT ![name] = active]
                  /\ smActive' = IF active
                                   THEN IF Contains(smActive, name) THEN smActive
                                        ELSE Append(smActive, name)
                                   ELSE Retain(smActive, name)
                  /\ smLast' = Called("set_active", name, "Ok", {})
        /\ smPhase' = [smPhase EXCEPT ![name] = "none"]
    /\ UNCHANGED <<smRegistered, smUpdated>>
    /\ UNCHANGED <<exVars, omVars, spVars, iceVars, trVars, opsVars, stVars, btVars, sigVars, rtVars>>

\* update_all: the clone of the active list is walked; `fails` are the
\* strategies whose update() returns Err on this bar, and the first of them
\* that the walk meets ends it through the `?`
UpdateAll(fails) ==
    LET failing == FailingIn(smActive, DOMAIN smStrategies, fails) IN
    /\ smUpdated' = UpdatedBeforeFailure(smActive, DOMAIN smStrategies, fails)
    /\ smLast' = IF failing = <<>> THEN Called("update_all", "", "Ok", fails)
                 ELSE Called("update_all", Head(failing), "Err", fails)
    /\ UNCHANGED <<smStrategies, smActive, smRegistered, smPhase>>

SmUpdateAll ==
    /\ \E fails \in SUBSET StrategyNames : UpdateAll(fails)
    /\ UNCHANGED <<exVars, omVars, spVars, iceVars, trVars, opsVars, stVars, btVars, sigVars, rtVars>>

----------------------------------------------------------------------------
(* start_strategy_runtime: main.rs.  One per-symbol task; whether the     *)
(* market-data fetch, a strategy's update or get_orders, and create_order *)
(* fail is the callee's business and is an input of the step.             *)

\* ticks one task is followed for
MaxTicks ==
    3

\* get_all_orders: the orders of the active strategies, in active-list
\* order; `handing` are the strategies that have an order to hand over
GetAllOrders(active, registered, handing) ==
    SelectSeq(active, LAMBDA x : x \in registered /\ x \in handing)

\* a submission loop that a failed create_order ends
AfterSubmitAbort(queue, ok) ==
    IF ok THEN Tail(queue) ELSE <<>>

\* `for order in orders`: a failed create_order is logged, and the loop goes
\* on with the next order
AfterSubmit(queue, ok) ==
    Tail(queue)

\* `ticker.tick().await`
RtTick ==
    /\ rtPc = "tick"
    /\ rtTicks < MaxTicks
    /\ rtTicks' = rtTicks + 1
    /\ rtPc' = "fetch"
    /\ rtDrained' = <<>>
    /\ rtAttempted' = <<>>
    /\ UNCHANGED <<rtQueue, rtFailed>>
    /\ UNCHANGED <<exVars, omVars, spVars, iceVars, trVars, opsVars, stVars, btVars,
                   smVars, sigVars>>

\* get_market_data under the exchange read lock; Err: logged, `continue`
RtFetch ==
    /\ rtPc = "fetch"
    /\ \E ok \in BOOLEAN :
        /\ rtPc' = IF ok THEN "update" ELSE "tick"
        /\ rtFailed' = IF ok THEN rtFailed ELSE rtFailed \cup {"fetch"}
    /\ UNCHANGED <<rtTicks, rtQueue, rtDrained, rtAttempted>>
    /\ UNCHANGED <<exVars, omVars, spVars, iceVars, trVars, opsVars, stVars, btVars,
                   smVars, sigVars>>

\* under the manager's write lock: update_all, and when it is Ok
\* get_all_orders; an Err of either is logged and leaves `orders` empty
RtUpdate ==
    /\ rtPc = "update"
    /\ \E fails \in SUBSET StrategyNames, handing \in SUBSET StrategyNames,
          collected \in BOOLEAN :
        LET failing == FailingIn(smActive, DOMAIN smStrategies, fails)
            orders == IF failing # <<>> \/ ~collected THEN <<>>
                      ELSE GetAllOrders(smActive, DOMAIN smStrategies, handing)
        IN  /\ UpdateAll(fails)
            /\ (failing # <<>> => collected /\ handing = {})
            /\ (~collected => handing = {})
            /\ rtQueue' = orders
            /\ rtDrained' = orders
            /\ rtPc' = IF orders = <<>> THEN "tick" ELSE "submit"
            /\ rtFailed' = IF failing # <<>> THEN rtFailed \cup {"update"}
                           ELSE IF ~collected THEN rtFailed \cup {"collect"}
                           ELSE rtFailed
    /\ UNCHANGED <<rtTicks, rtAttempted>>
    /\ UNCHANGED <<exVars, omVars, spVars, iceVars, trVars, opsVars, stVars, btVars,
                   sigVars>>

\* one turn of `for order in orders`: create_order under the order
\* manager's read lock; Err: logged
RtSubmit ==
    /\ rtPc = "submit"
    /\ rtQueue # <<>>
    /\ \E ok \in BOOLEAN :
        /\ rtAttempted' = Append(rtAttempted, [order |-> Head(rtQueue), ok |-> ok])
        /\ rtQueue' = AfterSubmit(rtQueue, ok)
        /\ rtPc' = IF AfterSubmit(rtQueue, ok) = <<>> THEN "tick" ELSE "submit"
        /\ rtFailed' = IF ok THEN rtFailed ELSE rtFailed \cup {"submit"}
    /\ UNCHANGED <<rtTicks, rtDrained>>
    /\ UNCHANGED <<exVars, omVars, spVars, iceVars, trVars, opsVars, stVars, btVars,
                   smVars, sigVars>>

----------------------------------------------------------------------------
(* Initial states and specifications *)

ValidatorChains == {<<>>, <<"basic">>, <<"basic", "risk">>, <<"risk", "basic">>}

ExInit ==
    /\ exchKind \in {"mock", "live"}
    /\ exOrders = <<>>

OMInit ==
    /\ repoOrders = <<>>
    /\ repoClientIdx = <<>>
    /\ validators \in ValidatorChains
    /\ uuidCtr = 0
    /\ omPc = [c \in Callers |-> "idle"]
    /\ omOrder = [c \in Callers |-> [id |-> NoId, cid |-> None, qty |-> 0, price |-> 0]]
    /\ omRes = [c \in Callers |-> "none"]
    /\ omAssigned = [c \in Callers |-> NoId]

\* OrderManager::new: no channel, no call in progress, no monitoring task
OpsInit ==
    /\ repoReaders = {}
    /\ repoWriteWait = {}
    /\ statusChannels = {}
    /\ chanSent = <<>>
    /\ cxPc = "idle"
    /\ cxId = NoId
    /\ cxLast = "none"
    /\ cxCount = 0
    /\ cancelledOk = {}
    /\ monPc = "off"
    /\ monChannels = {}
    /\ monQueue = {}
    /\ monSeen = {}

\* a subsystem a specification does not exercise stays as constructed
OMOff ==
    /\ repoOrders = <<>>
    /\ repoClientIdx = <<>>
    /\ validators = <<>>
    /\ uuidCtr = 0
    /\ omPc = [c \in Callers |-> "idle"]
    /\ omOrder = [c \in Callers |-> [id |-> NoId, cid |-> None, qty |-> 0, price |-> 0]]
    /\ omRes = [c \in Callers |-> "none"]
    /\ omAssigned = [c \in Callers |-> NoId]

SpOff ==
    /\ spKind = "twap"
    /\ spTotal = 0
    /\ spNumSlices = 0
    /\ spHist = <<>>
    /\ spRound = "down"
    /\ spActive = FALSE
    /\ spExecuted = 0
    /\ spChildren = <<>>
    /\ spPc = "idle"
    /\ spI = 0
    /\ spRemaining = 0
    /\ spPlan = <<>>
    /\ spRuns = 0
    /\ spRunDone = FALSE
    /\ spLast = "none"
    /\ spAttempts = <<>>

IceOff ==
    /\ iceTotal = 0
    /\ iceDisplay = 0
    /\ iceLimit = 0
    /\ iceExecuted = 0
    /\ iceActive = FALSE
    /\ iceCurrent = None
    /\ iceExecLock = 0
    /\ icePc = "idle"
    /\ iceStarts = 0
    /\ iceUpdates = 0
    /\ iceStopped = FALSE
    /\ iceLast = "none"
    /\ tPc = [t \in Tasks |-> "none"]
    /\ tActive = [t \in Tasks |-> TRUE]
    /\ tExecuted = [t \in Tasks |-> 0]
    /\ tCurrent = [t \in Tasks |-> None]
    /\ iceHeadAfterStop = FALSE
    /\ iceFilledPolls = 0

\* IcebergManager::new
IceInit ==
    /\ iceTotal \in IceTotals
    /\ \E d \in IceDisplays : iceDisplay = ClampDisplay(d, iceTotal)
    /\ iceLimit = 1
    /\ iceExecuted = 0
    /\ iceActive = FALSE
    /\ iceCurrent = None
    /\ iceExecLock = 0
    /\ icePc = "idle"
    /\ iceStarts = 0
    /\ iceUpdates = 0
    /\ iceStopped = FALSE
    /\ iceLast = "none"
    /\ tPc = [t \in Tasks |-> "none"]
    /\ tActive = [t \in Tasks |-> TRUE]
    /\ tExecuted = [t \in Tasks |-> 0]
    /\ tCurrent = [t \in Tasks |-> None]
    /\ iceHeadAfterStop = FALSE
    /\ iceFilledPolls = 0

TrOff ==
    /\ mktPrice = 0
    /\ exReaders = {}
    /\ exWriteWait = {}
    /\ trSide = "Buy"
    /\ trQty = 0
    /\ trDelta = 0
    /\ trActivation = {}
    /\ trExecuted = FALSE
    /\ trActive = FALSE
    /\ trHighest = 0
    /\ trLowest = F64Max
    /\ trStopOrder = None
    /\ trStarts = 0
    /\ trLast = "none"
    /\ kPc = [k \in TrTasks |-> "none"]
    /\ kActive = [k \in TrTasks |-> TRUE]
    /\ kHighest = [k \in TrTasks |-> 0]
    /\ kLowest = [k \in TrTasks |-> 0]
    /\ kExecuted = [k \in TrTasks |-> FALSE]
    /\ kStopId = [k \in TrTasks |-> None]
    /\ kActivated = [k \in TrTasks |-> FALSE]
    /\ kDelta = [k \in TrTasks |-> 0]
    /\ trS4Polls = 0

\* TrailingStopManager::new
TrInit ==
    /\ mktPrice \in TrailPrices
    /\ exReaders = {}
    /\ exWriteWait = {}
    /\ trSide \in {"Buy", "Sell"}
    /\ trQty = 1
    /\ trDelta \in TrailDeltas
    /\ trActivation \in {{}, {49500}}
    /\ trExecuted = FALSE
    /\ trActive = FALSE
    /\ trHighest = 0
    /\ trLowest = F64Max
    /\ trStopOrder = None
    /\ trStarts = 0
    /\ trLast = "none"
    /\ kPc = [k \in TrTasks |-> "none"]
    /\ kActive = [k \in TrTasks |-> TRUE]
    /\ kHighest = [k \in TrTasks |-> 0]
    /\ kLowest = [k \in TrTasks |-> 0]
    /\ kExecuted = [k \in TrTasks |-> FALSE]
    /\ kStopId = [k \in TrTasks |-> None]
    /\ kActivated = [k \in TrTasks |-> FALSE]
    /\ kDelta = [k \in TrTasks |-> 0]
    /\ trS4Polls = 0

\* no strategy under test
StOff ==
    /\ stStrategy = [kind |-> "none"]
    /\ stUpdates = 0
    /\ stCalls = 0
    /\ stHanded = <<>>
    /\ stLastTs = 0
    /\ stNow = 0

\* a strategy as its constructor leaves it
StInit ==
    /\ stStrategy \in Strategies \cup TrailingStrategies
    /\ stUpdates = 0
    /\ stCalls = 0
    /\ stHanded = <<>>
    /\ stLastTs = 0
    /\ stNow = 0

\* BacktestEngine::new; Off: an engine that is never run
BtFresh ==
    /\ btBalance = btInitial
    /\ btMarketData = <<>>
    /\ btOrders = <<>>
    /\ btTrades = <<>>
    /\ btStrategies = <<>>
    /\ btCounter = 0
    /\ btTimeline = <<>>
    /\ btPos = 0
    /\ btCurrentTime = 0
    /\ btCurrentData = {}
    /\ btNow = 0
    /\ btReturned = [status |-> "none", result |-> {}]

BtOff ==
    /\ btProvider = <<>>
    /\ btStart = 0
    /\ btEnd = 0
    /\ btInitial = <<>>
    /\ btFee = 0
    /\ btSlip = 0
    /\ btPc = "off"
    /\ BtFresh

BtInit ==
    /\ btProvider \in DataSets
    /\ \E w \in Windows : btStart = w[1] /\ btEnd = w[2]
    /\ btInitial \in InitialBalances
    /\ btFee \in FeeRates
    /\ btSlip \in Slippages
    /\ btPc = "new"
    /\ BtFresh

\* StrategyManager::new; Off: a manager that is never called
SmInit ==
    /\ smStrategies = <<>>
    /\ smActive = <<>>
    /\ smRegistered = <<>>
    /\ smUpdated = <<>>
    /\ smLast = Called("new", "", "Ok", {})
    /\ smPhase = [n \in StrategyNames |-> "none"]

SmOff == SmInit

\* a crossover indicator as with_sma leaves it; no strength classified yet
SigFresh ==
    /\ maPrev = [fast |-> <<>>, slow |-> <<>>]
    /\ maResult = [status |-> "none", signals |-> <<>>, value |-> <<0, 1>>]
    /\ sgStrength = 0
    /\ sgType = "none"

SigInit ==
    /\ \E p \in CrossoverPeriods : maIndicator = CrossoverWithSma(p[1], p[2])
    /\ SigFresh

SigOff ==
    /\ maIndicator = CrossoverWithSma(1, 2)
    /\ SigFresh

\* the task as start_strategy_runtime spawns it; Off: never spawned
RtInit ==
    /\ rtPc = "tick"
    /\ rtTicks = 0
    /\ rtQueue = <<>>
    /\ rtDrained = <<>>
    /\ rtAttempted = <<>>
    /\ rtFailed = {}

RtOff == RtInit

LibOff == SmOff /\ SigOff /\ RtOff

SimOff == StOff /\ BtOff /\ LibOff

\* no exchange is involved
ExOff ==
    /\ exchKind = "mock"
    /\ exOrders = <<>>

InitTrail == ExInit /\ OMOff /\ SpOff /\ IceOff /\ TrInit /\ OpsInit /\ SimOff

NextTrail ==
    \/ TrStart
    \/ TrStop
    \/ TrUpdateDelta
    \/ \E k \in TrTasks : TrTaskHead(k) \/ TrTaskPoll(k)
    \/ MarketMove

SpecTrail == InitTrail /\ [][NextTrail]_vars

InitIce == ExInit /\ OMOff /\ SpOff /\ IceInit /\ TrOff /\ OpsInit /\ SimOff

NextIce ==
    \/ IceStart
    \/ IceUpdatePrice
    \/ IceSubmitVisible
    \/ IceStop
    \/ \E t \in Tasks : IceTaskHead(t) \/ IceTaskTick(t) \/ IceTaskLock(t) \/ IceTaskBody(t)
    \/ ExchFill

SpecIce == InitIce /\ [][NextIce]_vars

InitOM == ExInit /\ OMInit /\ SpOff /\ IceOff /\ TrOff /\ OpsInit /\ SimOff

\* TwapSplitter::new / VwapSplitter::new
SpInit ==
    /\ spKind \in {"twap", "vwap"}
    /\ spTotal \in Totals
    /\ spNumSlices \in IF spKind = "twap" THEN 0..MaxSlices ELSE {VwapSlices}
    /\ spHist = <<>>
    /\ spRound = "down"
    /\ spActive = FALSE
    /\ spExecuted = 0
    /\ spChildren = <<>>
    /\ spPc = "idle"
    /\ spI = 0
    /\ spRemaining = 0
    /\ spPlan = <<>>
    /\ spRuns = 0
    /\ spRunDone = FALSE
    /\ spLast = "none"
    /\ spAttempts = <<>>

InitSplit == ExInit /\ OMOff /\ SpInit /\ IceOff /\ TrOff /\ OpsInit /\ SimOff

NextSplit == SpStart \/ SpSlice \/ SpStop

SpecSplit == InitSplit /\ [][NextSplit]_vars

NextOM ==
    \E c \in Callers : OMValidate(c) \/ OMSave(c) \/ OMSubmit(c) \/ OMUpdate(c)

SpecOM == InitOM /\ [][NextOM]_vars

\* the order manager in service: one caller of create_order, cancel_order
\* calls, subscriptions, the monitoring task, and the venue filling orders
OpsCallers == {1}

NextOps ==
    \/ \E c \in OpsCallers : OMValidate(c) \/ OMSave(c) \/ OMSubmit(c) \/ OMUpdate(c)
    \/ CxCheck
    \/ CxExchange
    \/ CxRepo
    \/ OpsSubscribe
    \/ MonStart
    \/ MonBegin
    \/ MonPoll
    \/ MonEnd
    \/ ExchFill

SpecOps == InitOM /\ [][NextOps]_vars

\* the four execution algorithms side by side: one instance of one of them
\* is constructed, and only the constructed one is operated; the splitters
\* take the total that divides evenly, the start and stop guards never read
\* the quantities
InitAlgos == (InitSplit /\ spTotal = 30) \/ InitIce \/ InitTrail

NextAlgos ==
    \/ spTotal > 0 /\ NextSplit
    \/ iceLimit > 0 /\ NextIce
    \/ trQty > 0 /\ NextTrail

SpecAlgos == InitAlgos /\ [][NextAlgos]_vars

\* one strategy and its caller
InitStrat ==
    ExOff /\ OMOff /\ SpOff /\ IceOff /\ TrOff /\ OpsInit /\ StInit /\ BtOff /\ LibOff

NextStrat == StUpdate \/ StGetOrders \/ StSetEntryPrice

SpecStrat == InitStrat /\ [][NextStrat]_vars

\* one backtest engine from its construction to the return of run()
InitBacktest ==
    ExOff /\ OMOff /\ SpOff /\ IceOff /\ TrOff /\ OpsInit /\ StOff /\ BtInit /\ LibOff

NextBacktest == BtAddStrategy \/ BtLoad \/ BtEntry \/ BtGenerate

SpecBacktest == InitBacktest /\ [][NextBacktest]_vars

\* one strategy manager and its caller
InitManager ==
    /\ ExOff /\ OMOff /\ SpOff /\ IceOff /\ TrOff /\ OpsInit /\ StOff /\ BtOff
    /\ SmInit /\ SigOff /\ RtOff

NextManager == SmAdd \/ SmRemove \/ SmSetActive \/ SmUpdateAll

SpecManager == InitManager /\ [][NextManager]_vars

\* one per-symbol runtime task over a manager with registered strategies
InitRuntime ==
    /\ ExOff /\ OMOff /\ SpOff /\ IceOff /\ TrOff /\ OpsInit /\ StOff /\ BtOff
    /\ \E names \in (SUBSET StrategyNames) \ {{}} :
        \E order \in Orderings(names), flags \in [names -> BOOLEAN] :
          /\ smStrategies = flags
          /\ smRegistered = order
          /\ smActive = SelectSeq(order, LAMBDA x : flags[x])
    /\ smUpdated = <<>>
    /\ smLast = Called("new", "", "Ok", {})
    /\ smPhase = [n \in StrategyNames |-> "none"]
    /\ SigOff /\ RtInit

NextRuntime == RtTick \/ RtFetch \/ RtUpdate \/ RtSubmit

SpecRuntime == InitRuntime /\ [][NextRuntime]_vars

\* one crossover indicator and the signal classifier
InitSignals ==
    /\ ExOff /\ OMOff /\ SpOff /\ IceOff /\ TrOff /\ OpsInit /\ StOff /\ BtOff
    /\ SmOff /\ SigInit /\ RtOff

NextSignals == MaUpdate \/ MaCalculate \/ SgFromStrength

SpecSignals == InitSignals /\ [][NextSignals]_vars

----------------------------------------------------------------------------
(* Claims about OrderManager.create_order *)

\* exchange submission failed after the provisional record was persisted
SubmitFailed(c) == omPc[c] = "done" /\ omRes[c] = "ExchangeError"

\* C3: if the exchange submission inside create_order fails after the
\* provisional record was persisted, then when create_order has returned the
\* error the repository holds no record for that order, neither under its id
\* nor under its client id.
C3_NoHalfState ==
    \A c \in Callers :
        SubmitFailed(c) =>
            /\ FindById(repoOrders, omOrder[c].id) = {}
            /\ FindByClientId(repoOrders, repoClientIdx, omOrder[c].cid) = {}

\* validators accepted and the exchange accepted
Accepted(c) == omPc[c] = "done" /\ omAssigned[c] # NoId

\* C4: when every validator accepts the order and the exchange accepts the
\* submission, create_order returns Ok with the exchange-assigned id and the
\* repository then holds the order under that id.
C4_StoredUnderAssignedId ==
    \A c \in Callers :
        Accepted(c) =>
            /\ omRes[c] = "Ok"
            /\ FindById(repoOrders, omAssigned[c]) # {}
            /\ \A o \in FindById(repoOrders, omAssigned[c]) : o.id = omAssigned[c]

\* C28: two orders submitted to the exchange with the same client id are
\* one order on the exchange, and the second submit_order returns the id
\* the first returned.
C28_RetryReturnsPriorId ==
    \A c1, c2 \in Callers :
        (/\ c1 # c2
         /\ omAssigned[c1] # NoId
         /\ omAssigned[c2] # NoId
         /\ omOrder[c1].cid = omOrder[c2].cid)
           => /\ omAssigned[c1] = omAssigned[c2]
              /\ Cardinality({id \in 1..Len(exOrders) :
                                 exOrders[id].owner \in {c1, c2}}) = 1

\* C35: for every interleaving of two concurrent create_order calls for
\* distinct orders that both pass validation and are both accepted by the
\* exchange, both calls return Ok and each order is then retrievable from
\* the repository under its own assigned id and under its own client id.
C35_ConcurrentCreatesBothStored ==
    \A c1, c2 \in Callers :
        (/\ c1 # c2
         /\ Accepted(c1)
         /\ Accepted(c2)
         /\ omOrder[c1].cid # omOrder[c2].cid)
           => \A c \in {c1, c2} :
                /\ omRes[c] = "Ok"
                /\ \E o \in FindById(repoOrders, omAssigned[c]) :
                      o.cid = omOrder[c].cid
                /\ \E o \in FindByClientId(repoOrders, repoClientIdx, omOrder[c].cid) :
                      o.id = omAssigned[c]

----------------------------------------------------------------------------
(* Claims about the TWAP / VWAP splitters *)

\* sum of the quantities of the child orders the run submitted
ChildQtySum == SumSeq([k \in 1..Len(spChildren) |-> exOrders[spChildren[k]].qty])

\* the run completed: start() returned Ok and is_active is false
RunCompleted == spRunDone /\ ~spActive

RECURSIVE NominalRemaining(_, _, _, _)
NominalRemaining(plan, total, n, i) ==
    IF i = 0 THEN total
    ELSE LET r == NominalRemaining(plan, total, n, i - 1)
         IN  r - AdjustedQuantity(i - 1, n, plan[i], r)

\* quantity of slice i (0-based) of a run with no failure
NominalQuantity(plan, total, n, i) ==
    AdjustedQuantity(i, n, plan[i + 1], NominalRemaining(plan, total, n, i))

\* C10: when the submission of slice i fails, the run still proceeds through
\* the remaining slices, and no later slice (the last one included) has its
\* quantity increased by what slice i failed to place: every slice after a
\* failure carries at most the quantity it has in a run without failures.
C10_NoRedistribution ==
    \A k \in 1..Len(spAttempts) :
        (~spAttempts[k].ok /\ spAttempts[k].i < spNumSlices - 1) =>
            /\ (RunCompleted => \E j \in (k + 1)..Len(spAttempts) : TRUE)
            /\ \A j \in (k + 1)..Len(spAttempts) :
                  spAttempts[j].qty <=
                      NominalQuantity(spPlan, spTotal, spNumSlices, spAttempts[j].i)

----------------------------------------------------------------------------
(* Claims about the Iceberg manager, checked under SpecIce *)

\* the instance's children that the venue still holds as working orders
IceOpenChildren == {id \in IceChildren : exOrders[id].st \in OpenStatuses}

\* C2: at every point of every interleaving of start(), the poll task,
\* update_price() and stop(), at most one child order of the Iceberg instance
\* has a non-terminal status on the exchange.
C2_AtMostOneOpenChild ==
    Cardinality(IceOpenChildren) <= 1

\* C5: after stop() on an active instance the poll loop finds the flag
\* cleared the next time it evaluates its loop condition, and ends: no poll
\* task finds its loop condition true once stop() has returned.
C5_LoopEndsAfterStop ==
    ~iceHeadAfterStop

\* C6: once stop() has returned Ok on an active instance, no child order the
\* instance submitted is still New or PartiallyFilled on the exchange.
C6_NoOpenChildAfterStop ==
    iceStopped => IceOpenChildren = {}

\* C8: an Iceberg of total 5 and display 1 that is started once and left
\* alone has one child more for every poll that found its child Filled, up
\* to exactly 5 children.
C8_FiveChildren ==
    (iceTotal = 5 /\ iceDisplay = 1 /\ iceStarts = 1 /\ iceUpdates = 0 /\ ~iceStopped)
        => /\ Cardinality(IceChildren) >= Min(5, 1 + iceFilledPolls)
           /\ Cardinality(IceChildren) <= 5

\* quantity of the child the instance currently exposes on the venue
ExposedQuantity ==
    IF iceCurrent # None /\ exOrders[iceCurrent].st \in OpenStatuses
      THEN exOrders[iceCurrent].qty
      ELSE 0

----------------------------------------------------------------------------
(* Claims about the Trailing-stop manager, checked under SpecTrail *)

\* C7: for a Sell trailing stop of delta 2% with no activation price, once
\* the polls have read 50000, 49500, 49000, 50000 (and nobody else holds
\* the exchange lock) exactly one Market Sell order of the instance's
\* quantity has been submitted and status() reports is_active = false,
\* executed = true.
C7_FourthPollSells ==
    (/\ trSide = "Sell"
     /\ trActivation = {}
     /\ trStarts = 1
     /\ kDelta[1] = 2
     /\ trS4Polls = Len(S4Prices)
     /\ exReaders \subseteq {1})
        => /\ Cardinality(TrailChildren) = 1
           /\ \A id \in TrailChildren :
                 exOrders[id].typ = "Market" /\ exOrders[id].qty = trQty
           /\ status[1] = FALSE
           /\ status[2] = TRUE

\* C23: the stop price the next poll of a running task computes is the
\* one the manager's trailing_delta gives: after update_delta(d) the trigger
\* decision is taken with d.
C23_NextTickUsesNewDelta ==
    \A k \in TrTasks :
        (kPc[k] = "tick" /\ trLast = "Ok")
          => StopPrice(trSide, Max(kHighest[k], mktPrice), Min(kLowest[k], mktPrice),
                       kDelta[k])
               = StopPrice(trSide, Max(kHighest[k], mktPrice), Min(kLowest[k], mktPrice),
                           trDelta)

----------------------------------------------------------------------------
(* Claims about all four execution algorithms, checked under SpecAlgos *)

\* C11: start() on an instance whose is_active is true fails with
\* AlreadyRunning, submits no order, spawns no poll task and leaves
\* executed_quantity and the child-order ids as they were; for TWAP and VWAP,
\* for Iceberg and for Trailing-stop.
C11_DuplicateStartRefused ==
    [][/\ (spActive /\ SpStart) =>
            /\ spLast' = "AlreadyRunning"
            /\ UNCHANGED <<exOrders, spActive, spExecuted, spChildren, spPc, spRuns>>
       /\ (iceActive /\ IceStart) =>
            /\ iceLast' = "AlreadyRunning"
            /\ UNCHANGED <<exOrders, iceActive, iceExecuted, iceCurrent, iceStarts, tPc>>
       /\ (trActive /\ TrStart) =>
            /\ trLast' = "AlreadyRunning"
            /\ UNCHANGED <<exOrders, trActive, trExecuted, trStopOrder, trStarts, kPc>>
      ]_vars

\* C11 witness: an Iceberg instance with a child on the exchange and a poll
\* task has just refused a second start().
C11_Witness ==
    /\ iceLast = "AlreadyRunning"
    /\ iceActive
    /\ iceCurrent # None
    /\ \E t \in Tasks : tPc[t] \notin {"none", "done"}

----------------------------------------------------------------------------
(* Claims about the order manager in service, checked under SpecOps *)

\* the statuses of the orders on the exchange
ExchStatuses(orders) == [id \in 1..Len(orders) |-> orders[id].st]

\* C13: once a cancel_order(id) has returned Ok, every step of a later
\* cancel_order(id) leaves the repository and the exchange statuses as they
\* are, and the call returns OrderNotFound, or Ok with the order in a
\* terminal status.
C13_LaterCancelIdempotent ==
    [][(cxId' \in cancelledOk /\ (cxCount' # cxCount \/ cxPc' # cxPc)) =>
          /\ cxLast' \in {"pending", "Ok", "OrderNotFound"}
          /\ UNCHANGED <<repoOrders, repoClientIdx>>
          /\ ExchStatuses(exOrders') = ExchStatuses(exOrders)
          /\ cxLast' = "Ok" => ExchStatus(exOrders', exchKind, cxId') \in TerminalStatuses
      ]_vars

\* C15: when the monitoring task has read from the exchange a terminal
\* status of an order the repository holds, whose client id had a status
\* stream when monitoring started (and nobody else holds the repository
\* lock), that status has been published on the stream.
C15_ChangePublished ==
    \A seen \in monSeen :
        (/\ seen[2] \in TerminalStatuses
         /\ seen[1] \in DOMAIN repoOrders
         /\ repoOrders[seen[1]].cid \in monChannels
         /\ repoReaders \subseteq {"mon"})
            => \E i \in 1..Len(chanSent) :
                  chanSent[i] = [cid |-> repoOrders[seen[1]].cid, st |-> seen[2]]

\* the first validator of the chain that refuses the order, 0 when none does
FirstRefusal(vs, o) ==
    IF \E i \in 1..Len(vs) : RunValidator(vs[i], o) # "Ok"
      THEN CHOOSE i \in 1..Len(vs) :
              /\ RunValidator(vs[i], o) # "Ok"
              /\ \A j \in 1..(i - 1) : RunValidator(vs[j], o) = "Ok"
      ELSE 0

\* C16: create_order runs the validators in the order they were added; when
\* one refuses the order the call returns the error of the first that does,
\* writes nothing to the repository and submits nothing to the exchange.
C16_FirstFailureShortCircuits ==
    [][\A c \in Callers :
          (omPc[c] = "idle" /\ omPc'[c] # "idle" /\ OMValidate(c)
             /\ FirstRefusal(validators, omOrder'[c]) # 0) =>
              /\ omRes'[c] = RunValidator(validators[FirstRefusal(validators, omOrder'[c])],
                                          omOrder'[c])
              /\ omPc'[c] = "done"
              /\ UNCHANGED <<repoOrders, repoClientIdx, exOrders, uuidCtr>>
      ]_vars

\* C16 witness: a chain of two validators that give different errors for
\* the order, and create_order has returned the first one's.
C16_Witness ==
    \E c \in Callers :
        /\ omPc[c] = "done"
        /\ Len(validators) = 2
        /\ RunValidator(validators[1], omOrder[c]) # "Ok"
        /\ RunValidator(validators[2], omOrder[c]) # "Ok"
        /\ RunValidator(validators[1], omOrder[c]) # RunValidator(validators[2], omOrder[c])
        /\ omRes[c] = RunValidator(validators[1], omOrder[c])
        /\ repoOrders = <<>>
        /\ exOrders = <<>>

----------------------------------------------------------------------------
(* Claim about get_open_orders, checked on the exchange books of SpecIce *)

\* C14: every order get_open_orders returns is New or PartiallyFilled on
\* the exchange at that moment; a filled, cancelled, rejected or expired
\* order is never returned.
C14_OpenOrdersAreOpen ==
    \A id \in GetOpenOrders(exOrders, exchKind) :
        /\ id \in 1..Len(exOrders)
        /\ exOrders[id].st \in OpenStatuses
        /\ exOrders[id].st \notin TerminalStatuses

\* C14 witness: the book holds a terminal order and a working one;
\* get_open_orders returns the working one only.
C14_Witness ==
    /\ \E id \in 1..Len(exOrders) : exOrders[id].st \in TerminalStatuses
    /\ GetOpenOrders(exOrders, exchKind) # {}
    /\ GetOpenOrders(exOrders, exchKind) # 1..Len(exOrders)

----------------------------------------------------------------------------
(* Claims about the strategies, checked under SpecStrat *)

\* C17: a get_orders() call that hands out orders takes them out of the
\* strategy: the strategy it leaves is not the one it found, so that a later
\* call before the next update() cannot hand the same orders out again.
C17_GetOrdersDrains ==
    [][(StGetOrders /\ stHanded' # stHanded) => stStrategy' # stStrategy]_vars

\* C24: over the bars a Buy trailing-stop strategy is updated with, the
\* stop price does not rise at a bar that sets no new high, and it falls
\* only at a bar that raises highest_price.
C24_BuyStopFollowsHigh ==
    [][(/\ stStrategy.kind = "trailing"
        /\ stStrategy.side = "Buy"
        /\ CalculateStopPrice(stStrategy) # {}
        /\ StUpdate)
          => \A before \in CalculateStopPrice(stStrategy) :
               \A after \in CalculateStopPrice(stStrategy') :
                 /\ stStrategy'.highest_price <= stStrategy.highest_price
                      => after <= before
                 /\ after < before
                      => stStrategy'.highest_price > stStrategy.highest_price]_vars

\* C27: update() with a bar of a symbol other than the strategy's own
\* leaves the strategy as it was, and with it every order it emits later.
C27_OtherSymbolIgnored ==
    \A md \in StratBars :
        md.symbol # stStrategy.symbol => StrategyUpdate(stStrategy, md) = stStrategy

----------------------------------------------------------------------------
(* Claims about the backtest engine, checked under SpecBacktest *)

C19_ReplayContinues ==
    btReturned.status # "InsufficientBalance"

\* the bar of the series with the greatest timestamp at or before `time`
LatestBar(series, time) ==
    LET hits == {i \in 1..Len(series) : series[i].timestamp <= time} IN
    series[CHOOSE i \in hits : \A j \in hits : series[j].timestamp <= series[i].timestamp]

\* C20: the bar run() has fetched for the timeline entry it is at is the
\* bar of that symbol with the greatest timestamp at or before the entry's
\* time.
C20_LatestBarAtOrBefore ==
    \A m \in btCurrentData : m = LatestBar(btMarketData[m.symbol], btCurrentTime)


\* C21: run() over a window that holds no bar of any symbol returns
\* InsufficientData.
C21_EmptyTimelineRefused ==
    (btPc = "done" /\ btTimeline = <<>>) => btReturned.status = "InsufficientData"

\* the sum of the quantities of the trades
RECURSIVE TradedQuantity(_)
TradedQuantity(trades) ==
    IF trades = <<>> THEN 0 ELSE Head(trades).quantity + TradedQuantity(Tail(trades))

\* C22: a finished run() over bars that span the execution interval of its
\* one TwapStrategy, started with enough quote balance for every slice,
\* has made num_slices trades whose quantities sum to total_quantity.
C22_TwapReplayFills ==
    (/\ btPc = "done"
     /\ Len(btStrategies) = 1
     /\ btStrategies[1].kind = "twap"
     /\ btStrategies[1].symbol \in DOMAIN btMarketData
     /\ btStart = 1000
     /\ Len(btMarketData[btStrategies[1].symbol]) = 3
     /\ "USDT" \in DOMAIN btInitial
     /\ btInitial["USDT"] >= 100000)
      => /\ btReturned.status = "Ok"
         /\ Len(btTrades) = btStrategies[1].num_slices
         /\ TradedQuantity(btTrades) = btStrategies[1].total_quantity


----------------------------------------------------------------------------
(* Claims about the strategy manager, checked under SpecManager *)

\* the registered strategies that are active, in registration order
RegisteredActive == SelectSeq(smRegistered, LAMBDA n : smStrategies[n])

\* C25 as stated: update_all updates the active strategies in registration
\* order up to the first one whose update fails, and returns that error.
C25_UpdateAllInRegistrationOrder ==
    smLast.op = "update_all"
      => LET n == Len(smUpdated) IN
         /\ n <= Len(RegisteredActive)
         /\ \A i \in 1..n : smUpdated[i] = RegisteredActive[i]
         /\ smLast.status = "Ok" => n = Len(RegisteredActive)
         /\ smLast.status = "Err"
              => n < Len(RegisteredActive) /\ RegisteredActive[n + 1] = smLast.name

\* C25: update_all updates only strategies that are active, in the order of
\* the active list, up to the first one whose update fails, and returns
\* that error; the strategies after the failing one are not updated, and a
\* strategy is on the active list exactly when it is active.
C25_UpdateAllInActiveListOrder ==
    /\ \A i \in 1..Len(smActive) :
          smActive[i] \in DOMAIN smStrategies /\ smStrategies[smActive[i]]
    /\ \A name \in DOMAIN smStrategies : smStrategies[name] => Contains(smActive, name)
    /\ smLast.op = "update_all"
         => LET n == Len(smUpdated) IN
            /\ n <= Len(smActive)
            /\ \A i \in 1..n : smUpdated[i] = smActive[i] /\ smUpdated[i] \notin smLast.fails
            /\ smLast.status \in {"Ok", "Err"}
            /\ smLast.status = "Ok" => n = Len(smActive)
            /\ smLast.status = "Err"
                 => /\ n < Len(smActive)
                    /\ smActive[n + 1] = smLast.name
                    /\ smLast.name \in smLast.fails

\* an update_all that updated a strategy, failed on the next and left a
\* third, re-activated earlier and so listed out of registration order,
\* without its update
C25_Witness ==
    /\ smLast.op = "update_all"
    /\ smLast.status = "Err"
    /\ Len(smUpdated) = 1
    /\ Len(smActive) = 3
    /\ smActive # RegisteredActive

\* C26: add(X); remove(X.name); add(X) on a manager that did not hold X's
\* name succeeds at every step; after the remove nothing is left of the
\* name, and after the second add X is registered and listed at most once
\* on the active list.
C26_AddRemoveAdd ==
    \A name \in StrategyNames :
        /\ smPhase[name] # "failed"
        /\ smPhase[name] = "removed"
             => name \notin DOMAIN smStrategies /\ ~Contains(smActive, name)
        /\ smPhase[name] = "readded"
             => /\ name \in DOMAIN smStrategies
                /\ Cardinality({i \in 1..Len(smActive) : smActive[i] = name}) <= 1

\* an active strategy added, removed and added again next to another one
C26_Witness ==
    \E name \in StrategyNames :
        /\ smPhase[name] = "readded"
        /\ smStrategies[name]
        /\ Contains(smActive, name)
        /\ Len(smActive) >= 2

----------------------------------------------------------------------------
(* Claims about indicators and signals, checked under SpecSignals *)

\* both averages were ready before the last update()
WasReady ==
    /\ SmaReady(maPrev.fast, maIndicator.fast_period)
    /\ SmaReady(maPrev.slow, maIndicator.slow_period)

\* the names and strengths of the signals calculate() returned
Reported == {maResult.signals[i] : i \in 1..Len(maResult.signals)}

\* C29: with both averages ready before and after an update(), calculate()
\* reports Golden Cross with strength 0.8 when the update took the fast
\* average from at or below the slow average to above it, and Death Cross
\* on the opposite crossing.
C29_CrossingSignalled ==
    (maResult.status = "Ok" /\ WasReady)
      => /\ (AverageAtOrBelow(maPrev.fast, maPrev.slow)
               /\ AverageAbove(maIndicator.fast, maIndicator.slow))
              => Signal("Golden Cross", 80) \in Reported
         /\ (AverageAtOrBelow(maPrev.slow, maPrev.fast)
               /\ AverageAbove(maIndicator.slow, maIndicator.fast))
              => Signal("Death Cross", 0 - 80) \in Reported

\* the label the strength thresholds give
LabelOf(s) ==
    IF s >= 70 THEN "StrongBuy"
    ELSE IF s >= 30 THEN "Buy"
    ELSE IF s > 0 THEN "ReduceShort"
    ELSE IF s <= 0 - 70 THEN "StrongSell"
    ELSE IF s <= 0 - 30 THEN "Sell"
    ELSE IF s < 0 THEN "ReduceLong"
    ELSE "Neutral"

\* C30: from_strength labels a strength of magnitude at least 0.7 Strong,
\* at least 0.3 Buy or Sell, above 0 ReduceShort or ReduceLong, and 0
\* Neutral.
C30_LabelByMagnitude ==
    sgType # "none" => sgType = LabelOf(sgStrength)

----------------------------------------------------------------------------
(* Claims on the locks of the algorithms and of the order manager *)

\* C31: for one Iceberg instance the cancel-and-resubmit of update_price()
\* and the status-check-and-replenish of the poll task exclude each other:
\* while update_price() is between its cancel and its resubmission no poll
\* task of the instance holds the execution lock.
C31_UpdatePriceExcludesPoll ==
    icePc = "upd_submit" => iceExecLock = 0

\* C33: the Trailing-stop poll task never blocks forever on the exchange
\* handle: a task that waits for write access to the exchange does not
\* itself hold a read guard of the same lock, which only its own progress
\* could release.
C33_WriteNotBehindOwnRead ==
    \A k \in TrTasks : k \in exWriteWait => k \notin exReaders

\* C34: the order-monitoring task never blocks forever on the order
\* repository: when it waits for write access to the repository it does not
\* itself hold a read guard of the same lock, so its cycle can finish and
\* the calls waiting behind it can acquire the repository.
C34_MonitorNotBehindOwnRead ==
    "mon" \in repoWriteWait => "mon" \notin repoReaders

\* C36: when start() has returned an error other than AlreadyRunning (the
\* VWAP historical-data fetch failed, the Iceberg's first child submission
\* failed, the Trailing-stop's initial market-data read failed) and no
\* other call has returned since, the instance is not active, so a later
\* start() is not refused as AlreadyRunning.
C36_FailedStartLeavesInactive ==
    /\ (spLast = "DataNotFound" => ~spActive)
    /\ (iceLast = "ExchangeError" /\ iceUpdates = 0 => ~iceActive)
    /\ (trLast = "DataNotFound" => ~trActive)

----------------------------------------------------------------------------
(* Claims on order status *)

\* C37: once an order has reached a terminal status (Filled, Cancelled,
\* Rejected or Expired) no later step changes its status; in particular a
\* Filled order never becomes Cancelled.
C37_TerminalStatusKept ==
    [][\A id \in 1..Len(exOrders) :
          exOrders[id].st \in TerminalStatuses => exOrders'[id].st = exOrders[id].st]_vars

----------------------------------------------------------------------------
(* Claims on the backtest balances and on the splitters' parameters *)

\* C38: at every point of a backtest replay every asset balance is >= 0: no
\* simulated fill debits more than the balance available at the moment of
\* the fill.
C38_BalancesNonNegative ==
    \A c \in DOMAIN btBalance : btBalance[c] >= 0

\* C39: for every historical bar series given to the VWAP splitter, also
\* one with fewer than 10 bars or with a length 10 does not divide, the 10
\* weights of the volume profile are each >= 0 and sum to 1.
C39_ProfileSumsToOne ==
    (spKind = "vwap" /\ spPc = "loop") =>
        LET p == VolumeProfile(spHist) IN
        /\ \A i \in 1..VwapSlices : p.num[i] >= 0
        /\ SumSeq(p.num) = p.den

\* C40: a TWAP splitter with num_slices = 0 is refused with
\* InvalidParameter: such an instance never runs (start() computes no slice
\* size and no slice interval for it), it is never active, and every
\* start() on it has returned InvalidParameter.
C40_ZeroSlicesRefused ==
    (spKind = "twap" /\ spNumSlices < 1) =>
        /\ spPc = "idle"
        /\ ~spActive
        /\ spLast \in {"none", "InvalidParameter", "StopOk"}

----------------------------------------------------------------------------
(* Claims on the runtime loop *)

\* the orders of the create_order calls made so far in this tick
AttemptedOrders ==
    [i \in 1..Len(rtAttempted) |-> rtAttempted[i].order]

\* C32: in the per-symbol runtime loop a failed market-data fetch, a failed
\* update_all or a failed create_order never ends the loop: the task is
\* always at a point of the loop, a tick that is over has called
\* create_order for every order it drained, in order, whatever the earlier
\* calls of the tick returned, and inside a tick the orders not yet
\* submitted are still queued.
C32_LoopSurvivesFailures ==
    /\ rtPc \in {"tick", "fetch", "update", "submit"}
    /\ (rtPc = "tick" => AttemptedOrders = rtDrained /\ rtQueue = <<>>)
    /\ (rtPc = "submit" => AttemptedOrders \o rtQueue = rtDrained /\ rtQueue # <<>>)

\* C32 witness: after a failed fetch and a failed update_all in earlier
\* ticks, a later tick has drained two orders, the first create_order has
\* failed and the second order has been submitted all the same.
C32_Witness ==
    /\ rtPc = "tick"
    /\ {"fetch", "update", "submit"} \subseteq rtFailed
    /\ Len(rtAttempted) = 2
    /\ ~rtAttempted[1].ok
    /\ rtAttempted[2].ok

============================================================================
